---- MODULE Spec2Model ----
(***************************************************************************)
(* RA-Micro Aktenimport (modules/aktenimport.py): the page scan of         *)
(* RAMicroAktenImporter, its classification and scoring functions, and     *)
(* the batch loop of BatchImporter, as state machines.                     *)
(***************************************************************************)
EXTENDS Integers, Sequences, FiniteSets, TLC

VARIABLES
    PDF_AVAILABLE,    \* module flag set by the import of pdfplumber/pypdf
    OCR_AVAILABLE,    \* module flag set by the import of pytesseract/pdf2image
    datei,            \* the PDF behind the importer's path and content bytes
    pdf_path,         \* self.pdf_path (FALSE: None, TRUE: the path of datei)
    aktenvorblatt,    \* self.aktenvorblatt (<<>>: None, <<av>>: an Aktenvorblatt)
    dokumente,        \* self.dokumente: index into listen (0: the list of __init__)
    total_pages,      \* self.total_pages
    ocr_verwendet,    \* self.ocr_verwendet
    listen,           \* the document lists _erkenne_dokumente has created
    pc,               \* position inside analysiere_pdf
    pdf_content,      \* argument of the running call (FALSE: None)
    ergebnis,         \* the ImportErgebnis of the running call
    scan,             \* locals of _erkenne_dokumente: dokumente, current_doc, doc_id, i
    rueckgaben,       \* the results analysiere_pdf has returned, in call order
    letzte_liste,     \* self.dokumente as it was when the running call started
    aufrufe,          \* the number of calls of analysiere_pdf so far
    fn_in,            \* input of the pure function under test
    fn_out,           \* its output
    dateien,          \* argument pdf_dateien of importiere_batch
    progress_callback,\* whether a progress callback was passed
    b_pc,             \* position inside importiere_batch
    b_i,              \* loop index i of importiere_batch
    b_ergebnisse,     \* local list ergebnisse of importiere_batch
    self_ergebnisse,  \* BatchImporter.ergebnisse
    protokoll         \* what happened in the batch, in order: callbacks and analyses

vars == <<PDF_AVAILABLE, OCR_AVAILABLE, datei, pdf_path, aktenvorblatt, dokumente,
          total_pages, ocr_verwendet, listen, pc, pdf_content, ergebnis, scan,
          rueckgaben, letzte_liste, aufrufe, fn_in, fn_out, dateien, progress_callback,
          b_pc, b_i, b_ergebnisse, self_ergebnisse, protokoll>>

importer_vars == <<datei, pdf_path, aktenvorblatt, dokumente, total_pages,
                   ocr_verwendet, listen, pc, pdf_content, ergebnis, scan,
                   rueckgaben, letzte_liste, aufrufe>>
fn_vars == <<fn_in, fn_out>>
batch_vars == <<dateien, progress_callback, b_pc, b_i, b_ergebnisse,
                self_ergebnisse, protokoll>>

Min(a, b) == IF a <= b THEN a ELSE b
Max(a, b) == IF a >= b THEN a ELSE b

(***************************************************************************)
(* Python floats (IEEE-754 binary64, round to nearest even).  A float is   *)
(* [T, J, Q] and stands for the real (T + J * 2^-57) / Q: T / Q is the     *)
(* decimal the code writes, J the distance of the double from it.  Every   *)
(* operation computes the exact result and rounds it to the nearest        *)
(* double of its binade, as the hardware does.                             *)
(***************************************************************************)
RECURSIVE Pow2(_)
Pow2(n) == IF n = 0 THEN 1 ELSE 2 * Pow2(n - 1)

QuadratMod(x, m) == (x * x) % m

RECURSIVE Pow2Mod(_, _)
\* 2^n modulo m, by repeated squaring
Pow2Mod(n, m) ==
    IF n = 0 THEN 1 % m
    ELSE IF n % 2 = 0 THEN QuadratMod(Pow2Mod(n \div 2, m), m)
    ELSE (2 * Pow2Mod(n - 1, m)) % m

\* the exponent e with 2^e <= T/Q < 2^(e+1), for T/Q in [2^-4, 2^4)
Binade(T, Q) ==
    CHOOSE e \in -4..3 :
        IF e >= 0 THEN T >= Q * Pow2(e) /\ T < Q * Pow2(e + 1)
                  ELSE T * Pow2(-e) >= Q /\ T * Pow2(-e) < 2 * Q

\* the exponent of the binade of (T + J * 2^-57) / Q, given that of T / Q
ExponentAus(T, J, Q, e0) ==
    IF J < 0 /\ (IF e0 >= 0 THEN T = Q * Pow2(e0) ELSE T * Pow2(-e0) = Q)
    THEN e0 - 1 ELSE e0

\* M: Q ulps; lo: the double at or below the value; g + lo: 0 modulo 2M when
\* the mantissa of lo is even.  Nearest, ties to even.
FRoundWahl(T, J, Q, M, lo, g) ==
    [T |-> T,
     J |-> IF 2 * (J - lo) < M THEN lo
           ELSE IF 2 * (J - lo) > M THEN lo + M
           ELSE IF (g + lo) % (2 * M) = 0 THEN lo ELSE lo + M,
     Q |-> Q]

\* u: one ulp in units of 2^-57; p1 = 2^(52-e) mod Q; p2 = 2^(52-e) mod 2Q.
\* The doubles of the binade have J = u * ((Q - (T * p1) % Q) % Q) + k * Q * u.
FRoundGitter(T, J, Q, u, p1, p2) ==
    FRoundWahl(T, J, Q, Q * u,
               J - ((J - (u * ((Q - (((T % Q) * p1) % Q)) % Q))) % (Q * u)),
               u * (((T % (2 * Q)) * p2) % (2 * Q)))

FRoundIn(T, J, Q, e) ==
    FRoundGitter(T, J, Q, Pow2(e + 5), Pow2Mod(52 - e, Q), Pow2Mod(52 - e, 2 * Q))

\* the double nearest to (T + J * 2^-57) / Q
FRound(T, J, Q) ==
    IF T = 0 /\ J = 0 THEN [T |-> 0, J |-> 0, Q |-> Q]
    ELSE FRoundIn(T, J, Q, ExponentAus(T, J, Q, Binade(T, Q)))

F_0_5 == [T |-> 5, J |-> 0, Q |-> 10]      \* the literal 0.5
F_0_1 == [T |-> 1, J |-> 8, Q |-> 10]      \* the literal 0.1 = 0x1.999999999999ap-4
F_0_3 == [T |-> 3, J |-> -16, Q |-> 10]    \* the literal 0.3 = 0x1.3333333333333p-2
F_1_0 == [T |-> 10, J |-> 0, Q |-> 10]     \* the literal 1.0
F_Null == [T |-> 0, J |-> 0, Q |-> 10]     \* 0.0

FLess(x, y) ==
    \/ x.T * y.Q < y.T * x.Q
    \/ x.T * y.Q = y.T * x.Q /\ x.J * y.Q < y.J * x.Q
FLeq(x, y) == ~FLess(y, x)
FMin(x, y) == IF FLess(y, x) THEN y ELSE x      \* Python's min(x, y)
FAdd(x, y) == FRound(x.T + y.T, x.J + y.J, x.Q)     \* x.Q = y.Q
FMulInt(n, x) == FRound(n * x.T, n * x.J, x.Q)  \* int * float
FDivInt(x, n) == FRound(x.T, x.J, x.Q * n)      \* float / int
\* int(x) for x >= 0
FInt(x) == IF x.J < 0 /\ x.T % x.Q = 0 /\ x.T > 0 THEN (x.T \div x.Q) - 1
           ELSE x.T \div x.Q

(***************************************************************************)
(* Page text.  A text is its sequence of tokens in reading order, its      *)
(* length len(text), the length slen of text.strip(), and what the cover   *)
(* sheet patterns find in it (av).  Token k in 1..32 is a passage that     *)
(* pattern k of DOKUMENT_MUSTER matches (and no other pattern does); the   *)
(* other tokens are a numeric date, a date with a month name, a subject    *)
(* line, and 0 for words no pattern matches.                               *)
(***************************************************************************)
None == "None"

DOKUMENT_MUSTER == <<
    [doc_type |-> "Gerichtsdokument", kategorie |-> "Gericht"],  \*  1  line 115
    [doc_type |-> "LAG-Dokument", kategorie |-> "Gericht"],  \*  2  line 116
    [doc_type |-> "BAG-Dokument", kategorie |-> "Gericht"],  \*  3  line 117
    [doc_type |-> "Ladung", kategorie |-> "Gericht"],  \*  4  line 118
    [doc_type |-> "Mahnbescheid", kategorie |-> "Gericht"],  \*  5  line 119
    [doc_type |-> "Vollstreckungsbescheid", kategorie |-> "Gericht"],  \*  6  line 120
    [doc_type |-> "Urteil", kategorie |-> "Gericht"],  \*  7  line 121
    [doc_type |-> "Beschluss", kategorie |-> "Gericht"],  \*  8  line 122
    [doc_type |-> "Versaeumnisurteil", kategorie |-> "Gericht"],  \*  9  line 123
    [doc_type |-> "Kuendigungsschutzklage", kategorie |-> "Schriftsatz"],  \* 10  line 126
    [doc_type |-> "Klageerwiderung", kategorie |-> "Schriftsatz"],  \* 11  line 127
    [doc_type |-> "Schriftsatz", kategorie |-> "Schriftsatz"],  \* 12  line 128
    [doc_type |-> "PKH-Antrag", kategorie |-> "Schriftsatz"],  \* 13  line 129
    [doc_type |-> "Berufungsbegruendung", kategorie |-> "Schriftsatz"],  \* 14  line 130
    [doc_type |-> "Arbeitsvertrag", kategorie |-> "Vertrag"],  \* 15  line 133
    [doc_type |-> "Aufhebungsvertrag", kategorie |-> "Vertrag"],  \* 16  line 134
    [doc_type |-> "Aenderungsvertrag", kategorie |-> "Vertrag"],  \* 17  line 135
    [doc_type |-> "Abwicklungsvertrag", kategorie |-> "Vertrag"],  \* 18  line 136
    [doc_type |-> "Vergleich", kategorie |-> "Vertrag"],  \* 19  line 137
    [doc_type |-> "Kuendigung", kategorie |-> "Arbeitgeber"],  \* 20  line 140
    [doc_type |-> "Abmahnung", kategorie |-> "Arbeitgeber"],  \* 21  line 141
    [doc_type |-> "Arbeitszeugnis", kategorie |-> "Arbeitgeber"],  \* 22  line 142
    [doc_type |-> "BR-Anhoerung", kategorie |-> "Arbeitgeber"],  \* 23  line 143
    [doc_type |-> "Gehaltsabrechnung", kategorie |-> "Arbeitgeber"],  \* 24  line 144
    [doc_type |-> "E-Mail", kategorie |-> "Korrespondenz"],  \* 25  line 147
    [doc_type |-> "Schreiben", kategorie |-> "Korrespondenz"],  \* 26  line 148
    [doc_type |-> "Schreiben", kategorie |-> "Korrespondenz"],  \* 27  line 149
    [doc_type |-> "RSV-Korrespondenz", kategorie |-> "Korrespondenz"],  \* 28  line 150
    [doc_type |-> "Deckungszusage", kategorie |-> "Korrespondenz"],  \* 29  line 151
    [doc_type |-> "Rechnung", kategorie |-> "Finanzen"],  \* 30  line 154
    [doc_type |-> "Vollmacht", kategorie |-> "Sonstiges"],  \* 31  line 155
    [doc_type |-> "Personalakte", kategorie |-> "Sonstiges"]   \* 32  line 156
>>

TokDatumNum == Len(DOKUMENT_MUSTER) + 1     \* dd.mm.yyyy
TokDatumName == Len(DOKUMENT_MUSTER) + 2    \* d. Monat yyyy
TokBetreff == Len(DOKUMENT_MUSTER) + 3      \* Betreff: / AW: / RE: and the rest of its line

LeeresVorblatt == [rubrum |-> FALSE, aktennummer |-> FALSE,
                   gegenstandswert |-> 0, parteien |-> 0]
LeererText == [toks |-> <<>>, len |-> 0, slen |-> 0, av |-> LeeresVorblatt]

\* re.search(pattern k, text)
Search(k, text) == \E n \in 1..Len(text.toks) : text.toks[n] = k

\* the position of the leftmost match of pattern k (0: no match)
ErstePosition(k, text) ==
    IF Search(k, text)
    THEN CHOOSE n \in 1..Len(text.toks) :
             text.toks[n] = k /\ \A m \in 1..(n - 1) : text.toks[m] # k
    ELSE 0

RECURSIVE KlassifiziereAb(_, _)
KlassifiziereAb(k, text) ==
    IF k > Len(DOKUMENT_MUSTER) THEN [doc_type |-> None, kategorie |-> None]
    ELSE IF Search(k, text) THEN DOKUMENT_MUSTER[k]
    ELSE KlassifiziereAb(k + 1, text)

\* a classifier that takes the pattern matching leftmost in the text
KlassifiziereLinks(text) ==
    LET treffer == {n \in 1..Len(text.toks) : text.toks[n] \in 1..Len(DOKUMENT_MUSTER)}
    IN  IF treffer = {} THEN [doc_type |-> None, kategorie |-> None]
        ELSE DOKUMENT_MUSTER[text.toks[CHOOSE n \in treffer : \A m \in treffer : n <= m]]

_klassifiziere_seite(text) == KlassifiziereAb(1, text)

KeinDatum == [art |-> None, pos |-> 0]

\* the date is named by the position of its token in the text
_extrahiere_datum(text) ==
    IF Search(TokDatumNum, text)
    THEN [art |-> "numerisch", pos |-> ErstePosition(TokDatumNum, text)]
    ELSE IF Search(TokDatumName, text)
    THEN [art |-> "monatsname", pos |-> ErstePosition(TokDatumName, text)]
    ELSE KeinDatum

\* datum: self._extrahiere_datum(text)
TitelMitDatum(text, doc_type, datum) ==
    IF Search(TokBetreff, text)
    THEN [form |-> "betreff", doc_type |-> None,
          datum |-> [art |-> None, pos |-> ErstePosition(TokBetreff, text)]]
    ELSE IF datum # KeinDatum
    THEN [form |-> "typ vom datum", doc_type |-> doc_type, datum |-> datum]
    ELSE [form |-> "typ", doc_type |-> doc_type, datum |-> KeinDatum]

_extrahiere_titel(text, doc_type) == TitelMitDatum(text, doc_type, _extrahiere_datum(text))

\* a count that leaves out the rule that classified the page
AnzahlTreffer_ohne_Regel(text) ==
    Max(0, Cardinality({k \in 1..Len(DOKUMENT_MUSTER) : Search(k, text)}) - 1)

\* matches: lines 408-409
AnzahlTreffer(text) == Cardinality({k \in 1..Len(DOKUMENT_MUSTER) : Search(k, text)})

\* score += 0.1 when the text is long
MitLaenge(score, lang) == IF lang THEN FAdd(score, F_0_1) ELSE score

\* a confidence without its caps
KonfidenzOhneDeckel(text, doc_type) ==
    MitLaenge(MitLaenge(FAdd(F_0_5, FMulInt(AnzahlTreffer(text), F_0_1)),
                        text.len > 500),
              text.len > 1000)

_berechne_konfidenz(text, doc_type) ==
    FMin(MitLaenge(MitLaenge(FAdd(F_0_5, FMin(FMulInt(AnzahlTreffer(text), F_0_1), F_0_3)),
                             text.len > 500),
                   text.len > 1000),
         F_1_0)

\* text[:500]; the tokens stand for the content of the prefix
Vorschau(text) == [toks |-> text.toks, len |-> Min(text.len, 500)]

RECURSIVE SummeKonfidenz(_, _)
\* sum(d.konfidenz for d in docs): left to right, starting from 0
SummeKonfidenz(docs, n) ==
    IF n = 0 THEN F_Null ELSE FAdd(SummeKonfidenz(docs, n - 1), docs[n].konfidenz)

\* a scorer without the cap on the per-document contribution
QualitaetOhneDeckel(av, docs) ==
    LET kopf == IF av = <<>> THEN 0
                ELSE (IF av[1].rubrum THEN 15 ELSE 0)
                   + (IF av[1].aktennummer THEN 15 ELSE 0)
                   + (IF av[1].gegenstandswert > 0 THEN 10 ELSE 0)
                   + (IF av[1].parteien >= 2 THEN 20 ELSE 0)
        rumpf == IF Len(docs) = 0 THEN 0
                 ELSE Len(docs) * 5
                    + FInt(FMulInt(10, FDivInt(SummeKonfidenz(docs, Len(docs)), Len(docs))))
    IN  kopf + rumpf

\* av: self.aktenvorblatt (<<>>: None), docs: self.dokumente
_bewerte_qualitaet(av, docs) ==
    LET kopf == IF av = <<>> THEN 0
                ELSE (IF av[1].rubrum THEN 15 ELSE 0)
                   + (IF av[1].aktennummer THEN 15 ELSE 0)
                   + (IF av[1].gegenstandswert > 0 THEN 10 ELSE 0)
                   + (IF av[1].parteien >= 2 THEN 20 ELSE 0)
        rumpf == IF Len(docs) = 0 THEN 0
                 ELSE Min(Len(docs) * 5, 30)
                    + FInt(FMulInt(10, FDivInt(SummeKonfidenz(docs, Len(docs)), Len(docs))))
    IN  Min(kopf + rumpf, 100)

\* a labelling whose thresholds are exclusive
QualitaetText_streng(score) ==
    IF score > 80 THEN "sehr_gut"
    ELSE IF score > 60 THEN "gut"
    ELSE IF score > 40 THEN "akzeptabel"
    ELSE "mangelhaft"

_qualitaet_text(score) ==
    IF score >= 80 THEN "sehr_gut"
    ELSE IF score >= 60 THEN "gut"
    ELSE IF score >= 40 THEN "akzeptabel"
    ELSE "mangelhaft"


(***************************************************************************)
(* PDFs.  A page is [raises, text, ocr_fehler, ocr]: extract_text() raises *)
(* or returns text; rasterising and recognising the page raises            *)
(* (ocr_fehler) or yields the text ocr.  A PDF is [lesbar, pages].         *)
(***************************************************************************)
MaxSeiten == 3
MaxAufrufe == 2

Vorblatt_voll == [rubrum |-> TRUE, aktennummer |-> TRUE,
                  gegenstandswert |-> 12500, parteien |-> 2]
T_vorblatt == [toks |-> <<0, TokDatumNum>>, len |-> 700, slen |-> 700, av |-> Vorblatt_voll]
T_beschluss == [toks |-> <<TokDatumName, 8, TokDatumNum>>, len |-> 1200, slen |-> 1200,
                av |-> [LeeresVorblatt EXCEPT !.rubrum = TRUE]]
T_abmahnung_klage == [toks |-> <<21, 10, TokBetreff>>, len |-> 600, slen |-> 598,
                      av |-> [LeeresVorblatt EXCEPT !.parteien = 1]]
T_kurz == [toks |-> <<8>>, len |-> 60, slen |-> 9, av |-> LeeresVorblatt]
T_ocr_vollmacht == [toks |-> <<31, TokDatumName>>, len |-> 80, slen |-> 80, av |-> LeeresVorblatt]

Seite(text) == [raises |-> FALSE, text |-> text, ocr_fehler |-> TRUE, ocr |-> LeererText]
S_defekt == [raises |-> TRUE, text |-> LeererText, ocr_fehler |-> TRUE, ocr |-> LeererText]
S_kurz == [raises |-> FALSE, text |-> T_kurz, ocr_fehler |-> FALSE, ocr |-> T_ocr_vollmacht]
S_scan_fehler == [raises |-> FALSE, text |-> LeererText, ocr_fehler |-> TRUE, ocr |-> LeererText]

Seiten == {Seite(T_vorblatt), Seite(T_beschluss), Seite(T_abmahnung_klage),
           S_defekt, S_kurz, S_scan_fehler}

SeqBis(S, n) == UNION {[1..m -> S] : m \in 0..n}

PDF_unlesbar == [lesbar |-> FALSE, pages |-> <<>>]
PDFs == {PDF_unlesbar} \cup {[lesbar |-> TRUE, pages |-> ps] : ps \in SeqBis(Seiten, MaxSeiten)}

(***************************************************************************)
(* RAMicroAktenImporter                                                    *)
(***************************************************************************)
\* what the patterns of _extrahiere_aktenvorblatt take from the text of page 1
_extrahiere_aktenvorblatt(pdf) ==
    IF Len(pdf.pages) = 0 THEN LeeresVorblatt ELSE pdf.pages[1].text.av

\* an OCR that does not look at self.pdf_path
OcrSeite_ohne_Pfad(path, page) ==
    IF ~OCR_AVAILABLE THEN LeererText
    ELSE IF page.ocr_fehler THEN LeererText
    ELSE page.ocr

\* path: self.pdf_path
_ocr_seite(path, page) ==
    IF ~OCR_AVAILABLE \/ ~path THEN LeererText
    ELSE IF page.ocr_fehler THEN LeererText
    ELSE page.ocr

\* an OCR path that does not ask for the engine
OcrPfad_ohne_Engine(page) == page.text.slen < 50

\* whether the page takes the OCR path
OcrPfad(page) == page.text.slen < 50 /\ OCR_AVAILABLE

\* a choice of text that keeps the native text when the OCR yields nothing
SeitenText_mit_Rueckfall(path, page) ==
    IF OcrPfad(page) /\ _ocr_seite(path, page) # LeererText
    THEN _ocr_seite(path, page)
    ELSE page.text

\* the text the page is classified by
SeitenText(path, page) == IF OcrPfad(page) THEN _ocr_seite(path, page) ELSE page.text

NeuesDokument(doc_id, text, page_num, klass) ==
    [id |-> doc_id,
     titel |-> _extrahiere_titel(text, klass.doc_type),
     kategorie |-> klass.kategorie,
     seite_von |-> page_num,
     seite_bis |-> page_num,
     datum |-> _extrahiere_datum(text),
     inhalt_vorschau |-> Vorschau(text),
     dateiname |-> "",
     ocr_text |-> "",
     konfidenz |-> _berechne_konfidenz(text, klass.doc_type)]

\* closing a document at the page that opens the next one
SchlussSeite_bis_Grenze(page_num) == page_num

\* the end page a document gets when page page_num opens the next one
SchlussSeite(page_num) == page_num - 1

\* an id taken before the counter is advanced
NaechsteId_ungezaehlt(doc_id) == doc_id

\* the id of the document after doc_id documents
NaechsteId(doc_id) == doc_id + 1

\* a scan that starts from the stored list instead of an empty one
ScanAnfang_angehaengt ==
    [dokumente |-> IF dokumente = 0 THEN <<>> ELSE listen[dokumente],
     current_doc |-> <<>>, doc_id |-> 0, i |-> 0]

\* the locals of _erkenne_dokumente before the first page
ScanAnfang == [dokumente |-> <<>>, current_doc |-> <<>>, doc_id |-> 0, i |-> 0]

\* a close that drops the open document
Schliesse_verworfen(s, bis) == s.dokumente

\* s.dokumente after the open document, if any, is closed at page bis
Schliesse(s, bis) ==
    IF s.current_doc # <<>> /\ bis >= s.current_doc[1].seite_von
    THEN Append(s.dokumente, [s.current_doc[1] EXCEPT !.seite_bis = bis])
    ELSE s.dokumente

\* a loop body that opens a document on a page without a match when none is open
ScanMitKlasse_sammelnd(s, page_num, text, klass) ==
    IF klass.doc_type # None \/ s.current_doc = <<>>
    THEN [dokumente |-> Schliesse(s, SchlussSeite(page_num)),
          current_doc |-> <<NeuesDokument(NaechsteId(s.doc_id), text, page_num, klass)>>,
          doc_id |-> NaechsteId(s.doc_id),
          i |-> s.i + 1]
    ELSE [s EXCEPT !.current_doc = <<[s.current_doc[1] EXCEPT !.seite_bis = page_num]>>,
                   !.i = s.i + 1]

\* a loop body in which a page without a match leaves the open document alone
ScanMitKlasse_ohne_Verlaengerung(s, page_num, text, klass) ==
    IF klass.doc_type # None
    THEN [dokumente |-> Schliesse(s, SchlussSeite(page_num)),
          current_doc |-> <<NeuesDokument(NaechsteId(s.doc_id), text, page_num, klass)>>,
          doc_id |-> NaechsteId(s.doc_id),
          i |-> s.i + 1]
    ELSE [s EXCEPT !.i = s.i + 1]

\* lines 344-362, klass: the result of _klassifiziere_seite(text)
ScanMitKlasse(s, page_num, text, klass) ==
    IF klass.doc_type # None
    THEN [dokumente |-> Schliesse(s, SchlussSeite(page_num)),
          current_doc |-> <<NeuesDokument(NaechsteId(s.doc_id), text, page_num, klass)>>,
          doc_id |-> NaechsteId(s.doc_id),
          i |-> s.i + 1]
    ELSE IF s.current_doc # <<>>
    THEN [s EXCEPT !.current_doc = <<[s.current_doc[1] EXCEPT !.seite_bis = page_num]>>,
                   !.i = s.i + 1]
    ELSE [s EXCEPT !.i = s.i + 1]

ScanMitText(s, page_num, text) ==
    ScanMitKlasse(s, page_num, text, _klassifiziere_seite(text))

\* one pass of the loop over pdf.pages, for a page whose text can be read
ScanSchritt(s, path, page) == ScanMitText(s, s.i + 1, SeitenText(path, page))

\* an end of scan that forgets the document still open
ScanAbschluss_ohne_letztes(s, n_pages) == s.dokumente

\* after the loop: the list that becomes self.dokumente
ScanAbschluss(s, n_pages) ==
    IF s.current_doc # <<>>
    THEN Append(s.dokumente, [s.current_doc[1] EXCEPT !.seite_bis = n_pages])
    ELSE s.dokumente

ImportErgebnis == [erfolg |-> TRUE, aktenvorblatt |-> <<>>, dokumente |-> 0,
                   qualitaet |-> "gut", qualitaet_score |-> 0,
                   fehler |-> <<>>, warnungen |-> <<>>]

\* an except branch that records the error and leaves erfolg as it is
NachAusnahme_ohne_erfolg(e) == [e EXCEPT !.fehler = Append(e.fehler, "Fehler bei PDF-Analyse")]

\* the except branch of analysiere_pdf
NachAusnahme(e) == [e EXCEPT !.erfolg = FALSE,
                             !.fehler = Append(e.fehler, "Fehler bei PDF-Analyse")]

\* the documents of a returned result
Docs(e) == IF e.dokumente = 0 THEN <<>> ELSE listen[e.dokumente]


\* the variables a specification does not use
OhneFunktion == fn_in = <<>> /\ fn_out = <<>>
OhneBatch == /\ dateien = <<>> /\ progress_callback = FALSE /\ b_pc = "-" /\ b_i = 0
             /\ b_ergebnisse = <<>> /\ self_ergebnisse = <<>> /\ protokoll = <<>>
OhneImporter == /\ datei = PDF_unlesbar /\ pdf_path = FALSE /\ aktenvorblatt = <<>>
                /\ dokumente = 0 /\ total_pages = 0 /\ ocr_verwendet = FALSE
                /\ listen = <<>> /\ pc = "-" /\ pdf_content = FALSE
                /\ ergebnis = ImportErgebnis /\ scan = ScanAnfang
                /\ rueckgaben = <<>> /\ letzte_liste = 0 /\ aufrufe = 0

\* RAMicroAktenImporter(pdf_path) for a file datei
Init ==
    /\ PDF_AVAILABLE \in BOOLEAN
    /\ OCR_AVAILABLE \in BOOLEAN
    /\ datei \in PDFs
    /\ pdf_path \in BOOLEAN
    /\ aktenvorblatt = <<>>
    /\ dokumente = 0
    /\ total_pages = 0
    /\ ocr_verwendet = FALSE
    /\ listen = <<>>
    /\ pc = "idle"
    /\ pdf_content = FALSE
    /\ ergebnis = ImportErgebnis
    /\ scan = ScanAnfang
    /\ rueckgaben = <<>>
    /\ letzte_liste = 0
    /\ aufrufe = 0
    /\ OhneFunktion
    /\ OhneBatch

\* return ergebnis from the except branch
Ausnahme ==
    /\ rueckgaben' = Append(rueckgaben, NachAusnahme(ergebnis))
    /\ ergebnis' = NachAusnahme(ergebnis)
    /\ pc' = "idle"

\* analysiere_pdf(pdf_content) is called: lines 177-180
Aufruf ==
    /\ pc = "idle"
    /\ aufrufe < MaxAufrufe
    /\ aufrufe' = aufrufe + 1
    /\ \E content \in BOOLEAN :
        /\ pdf_content' = content
        /\ letzte_liste' = dokumente
        /\ IF ~PDF_AVAILABLE
           THEN /\ rueckgaben' = Append(rueckgaben,
                      [ImportErgebnis EXCEPT !.erfolg = FALSE,
                           !.fehler = <<"PDF-Bibliotheken nicht installiert">>])
                /\ UNCHANGED <<pc, ergebnis>>
           ELSE /\ ergebnis' = ImportErgebnis
                /\ pc' = "open"
                /\ UNCHANGED rueckgaben
    /\ UNCHANGED <<PDF_AVAILABLE, OCR_AVAILABLE, datei, pdf_path, aktenvorblatt,
                   dokumente, total_pages, ocr_verwendet, listen, scan>>
    /\ UNCHANGED <<fn_vars, batch_vars>>

\* pdfplumber.open(pdf_file) and len(pdf.pages): lines 184-190
Oeffnen ==
    /\ pc = "open"
    /\ IF (~pdf_content /\ ~pdf_path) \/ ~datei.lesbar
       THEN Ausnahme /\ UNCHANGED total_pages
       ELSE /\ total_pages' = Len(datei.pages)
            /\ pc' = "vorblatt"
            /\ UNCHANGED <<ergebnis, rueckgaben>>
    /\ UNCHANGED <<PDF_AVAILABLE, OCR_AVAILABLE, datei, pdf_path, aktenvorblatt,
                   dokumente, ocr_verwendet, listen, scan, pdf_content, letzte_liste, aufrufe>>
    /\ UNCHANGED <<fn_vars, batch_vars>>

\* self._extrahiere_aktenvorblatt(pdf): lines 193-194, and the entry of
\* _erkenne_dokumente: lines 328-330
Vorblatt ==
    /\ pc = "vorblatt"
    /\ IF Len(datei.pages) > 0 /\ datei.pages[1].raises
       THEN Ausnahme /\ UNCHANGED <<aktenvorblatt, scan>>
       ELSE /\ aktenvorblatt' = <<_extrahiere_aktenvorblatt(datei)>>
            /\ ergebnis' = [ergebnis EXCEPT !.aktenvorblatt = aktenvorblatt']
            /\ scan' = ScanAnfang
            /\ pc' = "scan"
            /\ UNCHANGED rueckgaben
    /\ UNCHANGED <<PDF_AVAILABLE, OCR_AVAILABLE, datei, pdf_path, dokumente,
                   total_pages, ocr_verwendet, listen, pdf_content, letzte_liste, aufrufe>>
    /\ UNCHANGED <<fn_vars, batch_vars>>

\* one pass of the loop of _erkenne_dokumente: lines 332-362
ScanSeite ==
    /\ pc = "scan"
    /\ scan.i < Len(datei.pages)
    /\ LET page == datei.pages[scan.i + 1]
       IN  IF page.raises
           THEN Ausnahme /\ UNCHANGED <<scan, ocr_verwendet>>
           ELSE /\ scan' = ScanSchritt(scan, pdf_path, page)
                /\ ocr_verwendet' = (ocr_verwendet \/ OcrPfad(page))
                /\ UNCHANGED <<pc, ergebnis, rueckgaben>>
    /\ UNCHANGED <<PDF_AVAILABLE, OCR_AVAILABLE, datei, pdf_path, aktenvorblatt,
                   dokumente, total_pages, listen, pdf_content, letzte_liste, aufrufe>>
    /\ UNCHANGED <<fn_vars, batch_vars>>

\* the end of _erkenne_dokumente and ergebnis.dokumente = self.dokumente:
\* lines 364-368, 198
ScanEnde ==
    /\ pc = "scan"
    /\ scan.i = Len(datei.pages)
    /\ listen' = Append(listen, ScanAbschluss(scan, total_pages))
    /\ dokumente' = Len(listen')
    /\ ergebnis' = [ergebnis EXCEPT !.dokumente = dokumente']
    /\ pc' = "bewerten"
    /\ UNCHANGED <<PDF_AVAILABLE, OCR_AVAILABLE, datei, pdf_path, aktenvorblatt,
                   total_pages, ocr_verwendet, scan, pdf_content, rueckgaben, letzte_liste, aufrufe>>
    /\ UNCHANGED <<fn_vars, batch_vars>>

\* the scoring and the return: lines 201-202, 208
Bewerten ==
    /\ pc = "bewerten"
    /\ LET score == _bewerte_qualitaet(aktenvorblatt, listen[dokumente])
           e == [ergebnis EXCEPT !.qualitaet_score = score,
                                 !.qualitaet = _qualitaet_text(score)]
       IN  /\ ergebnis' = e
           /\ rueckgaben' = Append(rueckgaben, e)
    /\ pc' = "idle"
    /\ UNCHANGED <<PDF_AVAILABLE, OCR_AVAILABLE, datei, pdf_path, aktenvorblatt,
                   dokumente, total_pages, ocr_verwendet, listen, scan, pdf_content,
                   letzte_liste, aufrufe>>
    /\ UNCHANGED <<fn_vars, batch_vars>>

Next == Aufruf \/ Oeffnen \/ Vorblatt \/ ScanSeite \/ ScanEnde \/ Bewerten

Spec == Init /\ [][Next]_vars

(***************************************************************************)
(* analysiere_pdf as one step, for the callers that run it to its end.     *)
(* The result holds its documents themselves, not a reference.             *)
(***************************************************************************)
\* the loop of _erkenne_dokumente over all pages; ok: no page raised, s: the
\* locals after the last page read
ScanAlle(path, pages) ==
    LET nach[n \in 0..Len(pages)] ==
            IF n = 0 THEN [ok |-> TRUE, s |-> ScanAnfang]
            ELSE IF ~nach[n - 1].ok \/ pages[n].raises
            THEN [ok |-> FALSE, s |-> nach[n - 1].s]
            ELSE [ok |-> TRUE, s |-> ScanSchritt(nach[n - 1].s, path, pages[n])]
    IN  nach[Len(pages)]

\* the result of a call that raised no exception: lines 198-202
ErgebnisMitScore(av, docs, score) ==
    [ImportErgebnis EXCEPT !.aktenvorblatt = av,
                           !.dokumente = docs,
                           !.qualitaet_score = score,
                           !.qualitaet = _qualitaet_text(score)]

ErgebnisMitDocs(av, docs) == ErgebnisMitScore(av, docs, _bewerte_qualitaet(av, docs))

\* lauf: what the loop of _erkenne_dokumente ended with
ErgebnisNachScan(av, lauf, n_pages) ==
    IF ~lauf.ok
    THEN NachAusnahme([ImportErgebnis EXCEPT !.dokumente = <<>>, !.aktenvorblatt = av])
    ELSE ErgebnisMitDocs(av, ScanAbschluss(lauf.s, n_pages))

\* path: self.pdf_path is set; content: pdf_content is given; pdf: the PDF read
AnalysierePdf(path, content, pdf) ==
    IF ~PDF_AVAILABLE
    THEN [ImportErgebnis EXCEPT !.dokumente = <<>>, !.erfolg = FALSE,
                                !.fehler = <<"PDF-Bibliotheken nicht installiert">>]
    ELSE IF (~content /\ ~path) \/ ~pdf.lesbar
    THEN NachAusnahme([ImportErgebnis EXCEPT !.dokumente = <<>>])
    ELSE IF Len(pdf.pages) > 0 /\ pdf.pages[1].raises
    THEN NachAusnahme([ImportErgebnis EXCEPT !.dokumente = <<>>])
    ELSE ErgebnisNachScan(<<_extrahiere_aktenvorblatt(pdf)>>,
                          ScanAlle(path, pdf.pages), Len(pdf.pages))

(***************************************************************************)
(* BatchImporter.  An element of pdf_dateien is a path [art, pdf]: a str   *)
(* path or a bytes path (art), and the PDF stored there.  The file name    *)
(* passed to the callback is the element itself.                           *)
(***************************************************************************)
MaxDateien == 3

PDF_vorblatt == [lesbar |-> TRUE, pages |-> <<Seite(T_vorblatt)>>]
PDF_akte == [lesbar |-> TRUE,
             pages |-> <<Seite(T_vorblatt), Seite(T_beschluss), Seite(T_abmahnung_klage)>>]
PDF_defekt == [lesbar |-> TRUE, pages |-> <<Seite(T_beschluss), S_defekt>>]

Pfade == {[art |-> "str", pdf |-> PDF_unlesbar],
          [art |-> "str", pdf |-> PDF_vorblatt],
          [art |-> "str", pdf |-> PDF_akte],
          [art |-> "str", pdf |-> PDF_defekt],
          [art |-> "bytes", pdf |-> PDF_akte]}

\* Path(pdf_path) accepts str and os.PathLike, and raises TypeError for bytes
PathRaises(pfad) == pfad.art = "bytes"

\* the result the except branch of the loop appends: lines 611-614
BatchFehler == [ImportErgebnis EXCEPT !.dokumente = <<>>, !.erfolg = FALSE,
                                      !.fehler = <<"Fehler bei Datei">>]

\* the try statement for pfad: raised: an exception reached the except branch;
\* ergebnis: what is appended to the local list ergebnisse
TryBlock(pfad) ==
    IF PathRaises(pfad) THEN [raised |-> TRUE, ergebnis |-> BatchFehler]
    ELSE [raised |-> FALSE, ergebnis |-> AnalysierePdf(TRUE, FALSE, pfad.pdf)]

\* a loop that records the failed file in self.ergebnisse as well
NachVersuch_mit_Fehlern(pfad, v, liste) ==
    Append(liste, [datei |-> pfad, ergebnis |-> v.ergebnis])

\* self.ergebnisse after the try statement for pfad: lines 602-608
NachVersuch(pfad, v, liste) ==
    IF v.raised THEN liste
    ELSE Append(liste, [datei |-> pfad, ergebnis |-> v.ergebnis])

\* a loop that puts the newest result first
LokalNachVersuch_vorn(v, liste) == <<v.ergebnis>> \o liste

\* the local list ergebnisse after the try statement: lines 607, 611
LokalNachVersuch(v, liste) == Append(liste, v.ergebnis)

\* BatchImporter() and the call importiere_batch(dateien, progress_callback)
InitBatch ==
    /\ PDF_AVAILABLE \in BOOLEAN
    /\ OCR_AVAILABLE \in BOOLEAN
    /\ dateien \in SeqBis(Pfade, MaxDateien)
    /\ progress_callback \in BOOLEAN
    /\ b_pc = IF Len(dateien) = 0 THEN "fertig" ELSE "callback"
    /\ b_i = 0
    /\ b_ergebnisse = <<>>
    /\ self_ergebnisse = <<>>
    /\ protokoll = <<>>
    /\ OhneFunktion
    /\ OhneImporter

\* the head of the loop body: lines 590-592
Callback ==
    /\ b_pc = "callback"
    /\ protokoll' = IF progress_callback
                    THEN Append(protokoll, [typ |-> "callback", index |-> b_i + 1,
                                            total |-> Len(dateien),
                                            name |-> dateien[b_i + 1]])
                    ELSE protokoll
    /\ b_pc' = "try"
    /\ UNCHANGED <<dateien, progress_callback, b_i, b_ergebnisse, self_ergebnisse>>
    /\ UNCHANGED <<PDF_AVAILABLE, OCR_AVAILABLE, importer_vars, fn_vars>>

\* v: the outcome of the try statement for file b_i + 1
VersuchMit(v) ==
    /\ b_ergebnisse' = LokalNachVersuch(v, b_ergebnisse)
    /\ self_ergebnisse' = NachVersuch(dateien[b_i + 1], v, self_ergebnisse)
    /\ protokoll' = Append(protokoll,
                           [typ |-> IF v.raised THEN "except" ELSE "analyse",
                            index |-> b_i + 1,
                            total |-> Len(dateien),
                            name |-> dateien[b_i + 1]])

\* importer.analysiere_pdf() is called in the loop's own thread, without a
\* time limit: the call for a path whose open() blocks (a FIFO that nobody
\* writes to) does not return
Haengt(pfad) == pfad.art = "fifo"

\* the try statement and the step to the next file or the return: lines 594-616
Versuch ==
    /\ b_pc = "try"
    /\ ~Haengt(dateien[b_i + 1])
    /\ VersuchMit(TryBlock(dateien[b_i + 1]))
    /\ b_i' = b_i + 1
    /\ b_pc' = IF b_i + 1 < Len(dateien) THEN "callback" ELSE "fertig"
    /\ UNCHANGED <<dateien, progress_callback>>
    /\ UNCHANGED <<PDF_AVAILABLE, OCR_AVAILABLE, importer_vars, fn_vars>>

NextBatch == Callback \/ Versuch

SpecBatch == InitBatch /\ [][NextBatch]_vars

\* the paths of a batch that may contain a file whose analysis does not end
PfadeZeit == Pfade \cup {[art |-> "fifo", pdf |-> PDF_akte]}

InitBatchZeit ==
    /\ PDF_AVAILABLE \in BOOLEAN
    /\ OCR_AVAILABLE \in BOOLEAN
    /\ dateien \in SeqBis(PfadeZeit, MaxDateien)
    /\ progress_callback \in BOOLEAN
    /\ b_pc = IF Len(dateien) = 0 THEN "fertig" ELSE "callback"
    /\ b_i = 0
    /\ b_ergebnisse = <<>>
    /\ self_ergebnisse = <<>>
    /\ protokoll = <<>>
    /\ OhneFunktion
    /\ OhneImporter

\* a step of the loop, seen by the position alone: every step of NextBatch
\* changes b_pc, and a step is possible at the head of the loop body and at a
\* try statement whose analysis ends
Schleifenschritt ==
    /\ b_pc \in {"callback", "try"}
    /\ b_pc = "try" => ~Haengt(dateien[b_i + 1])
    /\ b_pc' \in {"callback", "try", "fertig"}
    /\ b_pc' # b_pc

\* importiere_batch is one sequential loop: the interpreter executes the next
\* statement of the loop whenever there is one that can complete
SpecBatchFair == InitBatchZeit /\ [][NextBatch]_vars /\ WF_b_pc(Schleifenschritt)

RECURSIVE SummeDokumente(_, _)
\* sum(len(e["ergebnis"].dokumente or []) for e in the first n entries of liste)
SummeDokumente(liste, n) ==
    IF n = 0 THEN 0
    ELSE SummeDokumente(liste, n - 1) + Len(liste[n].ergebnis.dokumente)

RECURSIVE SummeScore(_, _)
\* sum(e["ergebnis"].qualitaet_score or 0 for e in the first n entries of liste)
SummeScore(liste, n) ==
    IF n = 0 THEN 0
    ELSE SummeScore(liste, n - 1) + liste[n].ergebnis.qualitaet_score

\* BatchImporter.statistiken(); the mean is the fraction summe / anzahl
statistiken ==
    [gesamt |-> Len(self_ergebnisse),
     erfolgreich |-> Cardinality({k \in 1..Len(self_ergebnisse) :
                                     self_ergebnisse[k].ergebnis.erfolg}),
     fehlgeschlagen |-> Len(self_ergebnisse)
                        - Cardinality({k \in 1..Len(self_ergebnisse) :
                                          self_ergebnisse[k].ergebnis.erfolg}),
     dokumente_gesamt |-> SummeDokumente(self_ergebnisse, Len(self_ergebnisse)),
     durchschnitt_qualitaet |->
         [summe |-> SummeScore(self_ergebnisse, Len(self_ergebnisse)),
          anzahl |-> Max(Len(self_ergebnisse), 1)]]

(***************************************************************************)
(* _klassifiziere_seite as a function of the page text: fn_in is the text, *)
(* fn_out holds what the call returned.                                    *)
(***************************************************************************)
MaxToks == 2

TextAus(toks) == [toks |-> toks, len |-> 100 * Len(toks), slen |-> 100 * Len(toks),
                  av |-> LeeresVorblatt]

InitKlass ==
    /\ PDF_AVAILABLE = TRUE
    /\ OCR_AVAILABLE = FALSE
    /\ fn_in \in {TextAus(toks) : toks \in SeqBis(0..TokBetreff, MaxToks)}
    /\ fn_out = <<>>
    /\ OhneImporter
    /\ OhneBatch

Klassifiziere ==
    /\ fn_out = <<>>
    /\ fn_out' = <<_klassifiziere_seite(fn_in)>>
    /\ UNCHANGED <<fn_in, PDF_AVAILABLE, OCR_AVAILABLE, importer_vars, batch_vars>>

NextKlass == Klassifiziere

SpecKlass == InitKlass /\ [][NextKlass]_vars

(***************************************************************************)
(* _berechne_konfidenz and _bewerte_qualitaet as functions: fn_in is a     *)
(* cover sheet and a document list of j documents with text a followed by  *)
(* n - j documents with text b; fn_out holds the two confidences and then  *)
(* the score.                                                              *)
(***************************************************************************)
MaxDoks == 7

\* a text of the given length that m patterns match
TextMit(m, len) == [toks |-> [k \in 1..m |-> k], len |-> len, slen |-> len,
                    av |-> LeeresVorblatt]

ScoreTexte == {TextMit(m, len) : m \in {0, 1, 4}, len \in {40, 600, 1001}}

Vorblaetter ==
    {<<>>} \cup {<<[rubrum |-> r, aktennummer |-> a, gegenstandswert |-> g, parteien |-> p]>> :
                    r \in BOOLEAN, a \in BOOLEAN, g \in {0, 12500}, p \in {1, 2}}

\* the documents of the list: only their confidence is read
DokumentListe(n, j, ka, kb) ==
    [k \in 1..n |-> [konfidenz |-> IF k <= j THEN ka ELSE kb]]

InitScore ==
    /\ PDF_AVAILABLE = TRUE
    /\ OCR_AVAILABLE = FALSE
    /\ fn_in \in {[av |-> av, a |-> a, b |-> b, n |-> n, j |-> j] :
                     av \in Vorblaetter, a \in ScoreTexte, b \in ScoreTexte,
                     n \in 0..MaxDoks, j \in 0..1}
    /\ fn_in.j <= fn_in.n
    /\ fn_out = <<>>
    /\ OhneImporter
    /\ OhneBatch

Konfidenz ==
    /\ fn_out = <<>>
    /\ fn_out' = <<[a |-> _berechne_konfidenz(fn_in.a, None),
                    b |-> _berechne_konfidenz(fn_in.b, None)]>>
    /\ UNCHANGED <<fn_in, PDF_AVAILABLE, OCR_AVAILABLE, importer_vars, batch_vars>>

Qualitaet ==
    /\ Len(fn_out) = 1
    /\ fn_out' = Append(fn_out,
                        _bewerte_qualitaet(fn_in.av,
                                           DokumentListe(fn_in.n, fn_in.j,
                                                         fn_out[1].a, fn_out[1].b)))
    /\ UNCHANGED <<fn_in, PDF_AVAILABLE, OCR_AVAILABLE, importer_vars, batch_vars>>

NextScore == Konfidenz \/ Qualitaet

SpecScore == InitScore /\ [][NextScore]_vars

(***************************************************************************)
(* Properties of the page scan and of analysiere_pdf, under Spec           *)
(***************************************************************************)
NSeiten == Len(datei.pages)

\* page p matches a classification rule (by the text it is classified by)
Trifft(p) == _klassifiziere_seite(SeitenText(pdf_path, datei.pages[p])).doc_type # None

\* the first matching page among 1..n, or 0
ErsterTreffer(n) ==
    IF \E p \in 1..n : Trifft(p)
    THEN CHOOSE p \in 1..n : Trifft(p) /\ \A q \in 1..(p - 1) : ~Trifft(q)
    ELSE 0

\* the number of documents of docs that page p belongs to
Ueberdeckung(docs, p) ==
    Cardinality({k \in 1..Len(docs) : docs[k].seite_von <= p /\ p <= docs[k].seite_bis})

Aufsteigend(docs) ==
    \A k \in 1..(Len(docs) - 1) : docs[k].seite_bis < docs[k + 1].seite_von

Erfolgreich == {k \in 1..Len(rueckgaben) : rueckgaben[k].erfolg}

\* C1 as the spec states it: in every successful result the page ranges are
\* strictly increasing and every page 1..N belongs to exactly one document.
C1_Original ==
    \A k \in Erfolgreich :
        /\ Aufsteigend(Docs(rueckgaben[k]))
        /\ \A p \in 1..NSeiten : Ueberdeckung(Docs(rueckgaben[k]), p) = 1

\* C1 amended: in every successful result the page ranges are strictly
\* increasing and non-overlapping, every page from the first matching page f
\* to N belongs to exactly one document, and every page before f (every page,
\* when no page matches) belongs to none.
C1_Seitenbereiche ==
    \A k \in Erfolgreich :
        LET docs == Docs(rueckgaben[k])
            f == ErsterTreffer(NSeiten)
        IN  /\ Aufsteigend(docs)
            /\ \A p \in 1..NSeiten :
                   Ueberdeckung(docs, p) = IF f # 0 /\ p >= f THEN 1 ELSE 0

C1_Witness ==
    \E k \in Erfolgreich :
        /\ NSeiten = 3
        /\ ErsterTreffer(NSeiten) = 2
        /\ Len(Docs(rueckgaben[k])) = 2

\* the documents a list holds start at page f, follow each other without a
\* gap and end at page n; no document when f = 0
Kette(docs, f, n) ==
    IF f = 0 THEN docs = <<>>
    ELSE /\ Len(docs) >= 1
         /\ docs[1].seite_von = f
         /\ \A k \in 1..(Len(docs) - 1) : docs[k + 1].seite_von = docs[k].seite_bis + 1
         /\ docs[Len(docs)].seite_bis = n
         /\ \A k \in 1..Len(docs) : docs[k].seite_von <= docs[k].seite_bis

\* C2: during the scan, after i pages, the closed documents and the open one
\* form a chain from the first matching page among 1..i to page i, so only
\* pages before the first matching page belong to no document; and every
\* list the scan has produced is such a chain from the first matching page to N.
C2_Kette ==
    /\ pc = "scan" => Kette(scan.dokumente \o scan.current_doc, ErsterTreffer(scan.i), scan.i)
    /\ pc = "scan" => \A p \in 1..scan.i :
           Ueberdeckung(scan.dokumente \o scan.current_doc, p)
               = IF ErsterTreffer(scan.i) # 0 /\ p >= ErsterTreffer(scan.i) THEN 1 ELSE 0
    /\ pc \in {"idle", "bewerten"} =>
           \A l \in 1..Len(listen) : Kette(listen[l], ErsterTreffer(NSeiten), NSeiten)

C2_Witness ==
    /\ pc = "bewerten"
    /\ NSeiten = 3
    /\ ErsterTreffer(NSeiten) = 2
    /\ Len(listen[dokumente]) = 1
    /\ listen[dokumente][1].seite_bis = 3

\* C3: in every list the scan produces, the k-th document has id k, the
\* start pages increase along the list, and seite_bis >= seite_von >= 1.
C3_Ids ==
    \A l \in 1..Len(listen) :
        /\ \A k \in 1..Len(listen[l]) :
               /\ listen[l][k].id = k
               /\ listen[l][k].seite_bis >= listen[l][k].seite_von
               /\ listen[l][k].seite_von >= 1
        /\ \A k \in 1..(Len(listen[l]) - 1) :
               listen[l][k].seite_von < listen[l][k + 1].seite_von

C3_Witness ==
    \E l \in 1..Len(listen) : Len(listen[l]) = 3 /\ listen[l][3].id = 3

\* C5: two successful results of the same importer on the same PDF hold equal
\* documents (ids, boundaries, categories, titles), cover sheets and scores,
\* and the stored list is the list of the latest run, not a longer one.
C5_Idempotent ==
    /\ \A k \in Erfolgreich : \A l \in Erfolgreich :
           /\ Docs(rueckgaben[k]) = Docs(rueckgaben[l])
           /\ rueckgaben[k].aktenvorblatt = rueckgaben[l].aktenvorblatt
           /\ rueckgaben[k].qualitaet_score = rueckgaben[l].qualitaet_score
    /\ \A k \in Erfolgreich :
           pc = "idle" /\ k = Len(rueckgaben) => dokumente = rueckgaben[k].dokumente

C5_Witness ==
    /\ Len(rueckgaben) = 2
    /\ Erfolgreich = {1, 2}
    /\ rueckgaben[1].dokumente # rueckgaben[2].dokumente
    /\ Len(Docs(rueckgaben[2])) = 2
    /\ ocr_verwendet

\* C6: every call of analysiere_pdf returns a result (no exception leaves
\* it); a result is successful exactly when it has no error string; a failed
\* result has exactly one error string and no document.
C6_KeineAusnahme ==
    /\ Len(rueckgaben) = IF pc = "idle" THEN aufrufe ELSE aufrufe - 1
    /\ \A k \in 1..Len(rueckgaben) :
           /\ rueckgaben[k].erfolg <=> rueckgaben[k].fehler = <<>>
           /\ ~rueckgaben[k].erfolg =>
                  Len(rueckgaben[k].fehler) = 1 /\ Docs(rueckgaben[k]) = <<>>

\* a failure in the scan after a document had been opened
C6_Witness ==
    /\ pc = "idle"
    /\ Len(rueckgaben) = 1
    /\ ~rueckgaben[1].erfolg
    /\ PDF_AVAILABLE /\ datei.lesbar
    /\ NSeiten = 3 /\ datei.pages[3].raises
    /\ scan.doc_id >= 1

(***************************************************************************)
(* Properties of _klassifiziere_seite, under SpecKlass                     *)
(***************************************************************************)
\* the rules whose pattern matches the text
Treffer(text) == {k \in 1..Len(DOKUMENT_MUSTER) : Search(k, text)}

\* C4: _klassifiziere_seite returns the type and category of the matching
\* rule with the smallest table index, wherever in the text the patterns
\* match, and (None, None) when no rule matches.
C4_ErsteRegel ==
    fn_out # <<>> =>
        IF Treffer(fn_in) = {}
        THEN fn_out[1] = [doc_type |-> None, kategorie |-> None]
        ELSE \E k \in Treffer(fn_in) :
                 /\ \A m \in Treffer(fn_in) : k <= m
                 /\ fn_out[1].doc_type = DOKUMENT_MUSTER[k].doc_type
                 /\ fn_out[1].kategorie = DOKUMENT_MUSTER[k].kategorie

\* rule 21 matches earlier in the text than rule 10, and rule 10 is returned
C4_Witness ==
    /\ fn_out # <<>>
    /\ fn_in.toks = <<21, 10>>
    /\ fn_out[1] = DOKUMENT_MUSTER[10]
    /\ DOKUMENT_MUSTER[10] # DOKUMENT_MUSTER[21]

(***************************************************************************)
(* Properties of importiere_batch and statistiken, under SpecBatch         *)
(***************************************************************************)
\* what importiere_batch returns for the file alone
Allein(pfad) ==
    IF pfad.art = "bytes" THEN BatchFehler ELSE AnalysierePdf(TRUE, FALSE, pfad.pdf)

\* the passes of the try statement recorded for file i
Versuche(i) ==
    {p \in 1..Len(protokoll) :
        protokoll[p].index = i /\ protokoll[p].typ \in {"analyse", "except"}}

\* C7: after b_i files the local list holds b_i results in input order,
\* result i is the result file i has when it is imported alone (so a failing
\* file changes no other result), each file has been tried exactly once, and
\* at the return there are as many results as files.
C7_Batch ==
    /\ Len(b_ergebnisse) = b_i
    /\ \A i \in 1..Len(b_ergebnisse) :
           /\ b_ergebnisse[i] = Allein(dateien[i])
           /\ Cardinality(Versuche(i)) = 1
    /\ b_pc = "fertig" => Len(b_ergebnisse) = Len(dateien)

\* three files, the second fails in the analysis, the others succeed
C7_Witness ==
    /\ b_pc = "fertig"
    /\ Len(dateien) = 3
    /\ dateien[2].pdf = PDF_defekt
    /\ b_ergebnisse[1].erfolg /\ Len(b_ergebnisse[1].dokumente) = 2
    /\ ~b_ergebnisse[2].erfolg
    /\ b_ergebnisse[3].erfolg

RECURSIVE SummeErgebnisDokumente(_, _)
SummeErgebnisDokumente(liste, n) ==
    IF n = 0 THEN 0 ELSE SummeErgebnisDokumente(liste, n - 1) + Len(liste[n].dokumente)

RECURSIVE SummeErgebnisScore(_, _)
SummeErgebnisScore(liste, n) ==
    IF n = 0 THEN 0 ELSE SummeErgebnisScore(liste, n - 1) + liste[n].qualitaet_score

\* C8 as the spec states it: after the batch, statistiken() reports gesamt =
\* k, the numbers of successful and failed returned results, the sum of their
\* document counts and the mean of their scores over the k returned results,
\* files caught by the handler of the loop included.
C8_Statistik ==
    b_pc = "fertig" =>
        /\ statistiken.gesamt = Len(dateien)
        /\ statistiken.erfolgreich
               = Cardinality({i \in 1..Len(b_ergebnisse) : b_ergebnisse[i].erfolg})
        /\ statistiken.fehlgeschlagen
               = Cardinality({i \in 1..Len(b_ergebnisse) : ~b_ergebnisse[i].erfolg})
        /\ statistiken.dokumente_gesamt
               = SummeErgebnisDokumente(b_ergebnisse, Len(b_ergebnisse))
        /\ statistiken.durchschnitt_qualitaet.summe * Max(Len(dateien), 1)
               = SummeErgebnisScore(b_ergebnisse, Len(b_ergebnisse))
                     * statistiken.durchschnitt_qualitaet.anzahl

\* the calls of the progress callback, in the order they were made
Rueckrufe == SelectSeq(protokoll, LAMBDA e : e.typ = "callback")

\* C9 as the spec states it: with a callback, at the return it has been
\* called once per file, in input order, with (i, total, name of file i), and
\* every call for file i comes after the analysis of file i.
C9_Fortschritt ==
    progress_callback =>
        /\ b_pc = "fertig" =>
               /\ Len(Rueckrufe) = Len(dateien)
               /\ \A i \in 1..Len(Rueckrufe) :
                      /\ Rueckrufe[i].index = i
                      /\ Rueckrufe[i].total = Len(dateien)
                      /\ Rueckrufe[i].name = dateien[i]
        /\ \A p \in 1..Len(protokoll) :
               protokoll[p].typ = "callback" =>
                   \E q \in 1..(p - 1) : q \in Versuche(protokoll[p].index)

(***************************************************************************)
(* Properties of the scores, under SpecScore                               *)
(***************************************************************************)
\* C10: every confidence _berechne_konfidenz returns lies in [0.0, 1.0], and
\* every score _bewerte_qualitaet returns is an integer in [0, 100].
C10_Bereiche ==
    /\ Len(fn_out) >= 1 =>
           /\ FLeq(F_Null, fn_out[1].a) /\ FLeq(fn_out[1].a, F_1_0)
           /\ FLeq(F_Null, fn_out[1].b) /\ FLeq(fn_out[1].b, F_1_0)
    /\ Len(fn_out) = 2 => fn_out[2] \in 0..100

\* a full cover sheet and seven documents of confidence 1.0: the score is 100
C10_Witness ==
    /\ Len(fn_out) = 2
    /\ fn_in.n = 7
    /\ fn_in.av # <<>> /\ fn_in.av[1].parteien = 2 /\ fn_in.av[1].rubrum
    /\ fn_out[1].a = F_1_0 /\ fn_out[1].b = F_1_0
    /\ fn_out[2] = 100

(***************************************************************************)
(* Properties of the quality score and the confidence, under SpecScore     *)
(***************************************************************************)
\* the cover-sheet points: caption 15, case number 15, claim value 10, parties 20
KopfPunkte(av) ==
    IF av = <<>> THEN 0
    ELSE (IF av[1].rubrum THEN 15 ELSE 0) + (IF av[1].aktennummer THEN 15 ELSE 0)
       + (IF av[1].gegenstandswert > 0 THEN 10 ELSE 0)
       + (IF av[1].parteien >= 2 THEN 20 ELSE 0)

\* x is the double that is written as the decimal x.T / x.Q
IstDezimal(x) == x = FRound(x.T, 0, x.Q)

\* floor(10 * mean) of j confidences ka and n - j confidences kb, n >= 1,
\* the confidences taken as the decimals T / 10
BodenZehnMittel(n, j, ka, kb) == (j * ka.T + (n - j) * kb.T) \div n

\* C11 as the spec states it: the score is the cover-sheet points plus, when
\* there is a document, min(5 n, 30) + floor(10 * mean confidence), capped at
\* 100 (for document lists whose confidences are exact decimal tenths).
C11_Formel ==
    (Len(fn_out) = 2 /\ IstDezimal(fn_out[1].a) /\ IstDezimal(fn_out[1].b)) =>
        fn_out[2] = Min(100,
                        KopfPunkte(fn_in.av)
                        + (IF fn_in.n = 0 THEN 0
                           ELSE Min(5 * fn_in.n, 30)
                                + BodenZehnMittel(fn_in.n, fn_in.j, fn_out[1].a, fn_out[1].b)))

(***************************************************************************)
(* _qualitaet_text as a function of the score: fn_in is the score, fn_out  *)
(* holds the label returned.                                               *)
(***************************************************************************)
MaxScore == 100

InitText ==
    /\ PDF_AVAILABLE = TRUE
    /\ OCR_AVAILABLE = FALSE
    /\ fn_in \in 0..MaxScore
    /\ fn_out = <<>>
    /\ OhneImporter
    /\ OhneBatch

Beschriften ==
    /\ fn_out = <<>>
    /\ fn_out' = <<_qualitaet_text(fn_in)>>
    /\ UNCHANGED <<fn_in, PDF_AVAILABLE, OCR_AVAILABLE, importer_vars, batch_vars>>

NextText == Beschriften

SpecText == InitText /\ [][NextText]_vars

\* the order of the labels
Rang(label) ==
    CASE label = "mangelhaft" -> 0
      [] label = "akzeptabel" -> 1
      [] label = "gut" -> 2
      [] label = "sehr_gut" -> 3

\* C12: every score s in 0..100 gets exactly one label: sehr_gut iff s >= 80,
\* gut iff 60 <= s < 80, akzeptabel iff 40 <= s < 60, mangelhaft iff s < 40;
\* and no smaller score gets a higher label.
C12_Schwellen ==
    fn_out # <<>> =>
        /\ Len(fn_out) = 1
        /\ fn_out[1] \in {"sehr_gut", "gut", "akzeptabel", "mangelhaft"}
        /\ fn_out[1] = "sehr_gut" <=> fn_in >= 80
        /\ fn_out[1] = "gut" <=> (60 <= fn_in /\ fn_in < 80)
        /\ fn_out[1] = "akzeptabel" <=> (40 <= fn_in /\ fn_in < 60)
        /\ fn_out[1] = "mangelhaft" <=> fn_in < 40
        /\ \A t \in 0..fn_in : Rang(_qualitaet_text(t)) <= Rang(fn_out[1])

\* the score on a threshold
C12_Witness == fn_in = 80 /\ fn_out = <<"sehr_gut">>

\* the confidence the spec gives a page text classified by one of its matching
\* rules, in tenths: 5, one per further matching rule (at most 3), one for
\* more than 500 and one more for more than 1000 characters, at most 10
KonfidenzZehntel(text) ==
    Min(10, 5 + Min(AnzahlTreffer(text) - 1, 3)
              + (IF text.len > 500 THEN 1 ELSE 0)
              + (IF text.len > 1000 THEN 1 ELSE 0))

\* C13 as the spec states it (under SpecScore): the confidence of a page text
\* that matches at least one rule is 0.5 + 0.1 per matching rule besides the
\* classifying one (at most 0.3) + the length bonuses, capped at 1.0, up to
\* the rounding of the last binary digit; 0.5 for a short page matching
\* exactly one rule.
C13_Konfidenz ==
    Len(fn_out) >= 1 =>
        /\ AnzahlTreffer(fn_in.a) >= 1 => fn_out[1].a.T = KonfidenzZehntel(fn_in.a)
        /\ AnzahlTreffer(fn_in.b) >= 1 => fn_out[1].b.T = KonfidenzZehntel(fn_in.b)

(***************************************************************************)
(* Further properties of analysiere_pdf, under Spec                        *)
(***************************************************************************)
\* the PDF can be opened and every page yields its text
Lesbar == datei.lesbar /\ \A p \in 1..NSeiten : ~datei.pages[p].raises

\* the latest call has returned, and it had a PDF to open
Zurueck == pc = "idle" /\ aufrufe >= 1 /\ PDF_AVAILABLE /\ (pdf_path \/ pdf_content)

\* the result of the latest call
Letztes == rueckgaben[Len(rueckgaben)]

\* C14: for a readable PDF in which no page matches a rule, analysiere_pdf
\* returns erfolg = true, no document and no error, and the score is the sum
\* of the cover-sheet points, hence at most 60.
C14_OhneTreffer ==
    (Zurueck /\ Lesbar /\ ErsterTreffer(NSeiten) = 0) =>
        /\ Letztes.erfolg
        /\ Docs(Letztes) = <<>>
        /\ Letztes.fehler = <<>>
        /\ Letztes.qualitaet_score = KopfPunkte(Letztes.aktenvorblatt)
        /\ Letztes.qualitaet_score <= 60

\* two pages without a match behind a full cover sheet: the score is 60
C14_Witness ==
    /\ Zurueck /\ Lesbar /\ ErsterTreffer(NSeiten) = 0
    /\ NSeiten = 2
    /\ Letztes.erfolg
    /\ Letztes.qualitaet_score = 60

(***************************************************************************)
(* The claim value in _extrahiere_aktenvorblatt: fn_in is the text that    *)
(* follows the label "Gegenstandswert" and its colon or blanks, a sequence *)
(* of characters; fn_out holds av.gegenstandswert as the fraction          *)
(* [z, n] = z / n, the decimal that float() reads.                         *)
(***************************************************************************)
MaxStuecke == 3

Ziffern == <<"0", "1", "2", "3", "4", "5", "6", "7", "8", "9">>

IstZiffer(c) == \E d \in 1..Len(Ziffern) : Ziffern[d] = c

ZiffernWert(c) == (CHOOSE d \in 1..Len(Ziffern) : Ziffern[d] = c) - 1

IstTrenner(c) == c \in {".", ","}

\* whether the n characters of s from position pos on are digits
ZiffernAb(s, pos, n) ==
    /\ pos + n - 1 <= Len(s)
    /\ \A k \in pos..(pos + n - 1) : IstZiffer(s[k])

\* \d{1,3} at the start of s: the position after it
NachKopf(s) ==
    IF ZiffernAb(s, 1, 3) THEN 4 ELSE IF ZiffernAb(s, 1, 2) THEN 3 ELSE 2

RECURSIVE NachGruppen(_, _)
\* (?:[.,]\d{3})* from position pos: the position after the last group
NachGruppen(s, pos) ==
    IF pos <= Len(s) /\ IstTrenner(s[pos]) /\ ZiffernAb(s, pos + 1, 3)
    THEN NachGruppen(s, pos + 4)
    ELSE pos

\* (?:[.,]\d{2})? from position pos: the position after it
NachDezimalen(s, pos) ==
    IF pos <= Len(s) /\ IstTrenner(s[pos]) /\ ZiffernAb(s, pos + 1, 2)
    THEN pos + 3
    ELSE pos

\* wert_match: <<>> when the pattern does not match, else <<group(1)>>
wert_match(s) ==
    IF ~ZiffernAb(s, 1, 1) THEN <<>>
    ELSE <<SubSeq(s, 1, NachDezimalen(s, NachGruppen(s, NachKopf(s))) - 1)>>

IstKeinPunkt(c) == c # "."

\* group.replace(".", "").replace(",", ".")
wert_str(group) ==
    [k \in 1..Len(SelectSeq(group, IstKeinPunkt)) |->
        IF SelectSeq(group, IstKeinPunkt)[k] = "," THEN "."
        ELSE SelectSeq(group, IstKeinPunkt)[k]]

RECURSIVE Zahl(_)
\* the number a sequence of digits denotes
Zahl(d) ==
    IF Len(d) = 0 THEN 0
    ELSE 10 * Zahl(SubSeq(d, 1, Len(d) - 1)) + ZiffernWert(d[Len(d)])

RECURSIVE Pow10(_)
Pow10(n) == IF n = 0 THEN 1 ELSE 10 * Pow10(n - 1)

WertNull == [z |-> 0, n |-> 1]

\* the positions of the points of w
Punkte(w) == {k \in 1..Len(w) : w[k] = "."}

\* float(w) for digits with points: <<>> when it raises ValueError
float(w) ==
    IF Cardinality(Punkte(w)) > 1 THEN <<>>
    ELSE <<[z |-> Zahl(SelectSeq(w, IstZiffer)),
            n |-> IF Punkte(w) = {} THEN 1
                  ELSE Pow10(Len(w) - (CHOOSE k \in Punkte(w) : TRUE))]>>

\* av.gegenstandswert after lines 234-241, given the match
WertAus(match) ==
    IF match = <<>> THEN WertNull
    ELSE IF float(wert_str(match[1])) = <<>> THEN WertNull
    ELSE float(wert_str(match[1]))[1]

\* the pieces the value texts are made of
Stuecke == {<<"1", "2">>, <<"5", "0", "0">>, <<"7">>,
            <<".", "5", "0", "0">>, <<",", "5", "0", "0">>,
            <<",", "0", "0">>, <<".", "5", "0">>, <<"a", "b", "c">>}

RECURSIVE Verkettet(_)
Verkettet(ss) == IF Len(ss) = 0 THEN <<>> ELSE Head(ss) \o Verkettet(Tail(ss))

InitWert ==
    /\ PDF_AVAILABLE = TRUE
    /\ OCR_AVAILABLE = FALSE
    /\ fn_in \in {Verkettet(ss) : ss \in SeqBis(Stuecke, MaxStuecke)}
    /\ fn_out = <<>>
    /\ OhneImporter
    /\ OhneBatch

ParseWert ==
    /\ fn_out = <<>>
    /\ fn_out' = <<WertAus(wert_match(fn_in))>>
    /\ UNCHANGED <<fn_in, PDF_AVAILABLE, OCR_AVAILABLE, importer_vars, batch_vars>>

NextWert == ParseWert

SpecWert == InitWert /\ [][NextWert]_vars

\* s is written with "." before every group of three digits and at most one
\* "," followed by two decimals, as "12.500,00"
IstTausender(s) ==
    \E kopf \in 1..3, g \in 0..Len(s), d \in 0..1 :
        /\ Len(s) = kopf + 4 * g + 3 * d
        /\ ZiffernAb(s, 1, kopf)
        /\ \A i \in 1..g : s[kopf + 4 * i - 3] = "." /\ ZiffernAb(s, kopf + 4 * i - 2, 3)
        /\ d = 1 => s[Len(s) - 2] = "," /\ ZiffernAb(s, Len(s) - 1, 2)

\* s is a plain integer, as "500"
IstGanzzahl(s) == Len(s) >= 1 /\ ZiffernAb(s, 1, Len(s))

\* the number such a text denotes
Bezeichnet(s) ==
    [z |-> Zahl(SelectSeq(s, IstZiffer)),
     n |-> IF \E k \in 1..Len(s) : s[k] = "," THEN 100 ELSE 1]

\* C15 as the spec states it: for a value with "." as thousands separator and
\* optional two decimals after ",", and for a plain integer, gegenstandswert
\* is the number the text denotes; for a text that does not start with a
\* digit it stays 0.0.
C15_Wert ==
    fn_out # <<>> =>
        /\ (IstTausender(fn_in) \/ IstGanzzahl(fn_in)) =>
               fn_out[1].z * Bezeichnet(fn_in).n = Bezeichnet(fn_in).z * fn_out[1].n
        /\ ~ZiffernAb(fn_in, 1, 1) => fn_out[1] = WertNull

(***************************************************************************)
(* _extrahiere_parteien and _parse_partei_block.  A line is the number of  *)
(* its characters (0: an empty line), which also stands for its content.   *)
(* The page text fn_in has up to three labelled regions in the order       *)
(* Auftraggeber, Gegner, Gegnervertreter: ag, gg, gv are <<>> (no label)   *)
(* or <<lines>>, the lines that follow the label, the first of them on the *)
(* line of the label.  fn_out holds the list of parties returned.          *)
(***************************************************************************)
MaxZeilen == 2

Zeilenlaengen == {0, 3, 12}

RECURSIVE OhneLeerAnfang(_)
\* [\s:]* takes the white space behind the label, empty lines included
OhneLeerAnfang(z) ==
    IF Len(z) = 0 THEN z ELSE IF z[1] = 0 THEN OhneLeerAnfang(Tail(z)) ELSE z

RECURSIVE OhneLeerEnde(_)
OhneLeerEnde(z) ==
    IF Len(z) = 0 THEN z
    ELSE IF z[Len(z)] = 0 THEN OhneLeerEnde(SubSeq(z, 1, Len(z) - 1)) ELSE z

RECURSIVE BisLeerzeile(_)
\* (.*?)(?=\n\n|$): the lines before the first empty line
BisLeerzeile(z) ==
    IF Len(z) = 0 THEN z
    ELSE IF z[1] = 0 THEN <<>> ELSE <<z[1]>> \o BisLeerzeile(Tail(z))

RECURSIVE Zeichen(_)
\* the characters of the lines z joined by newlines
Zeichen(z) ==
    IF Len(z) = 0 THEN 0
    ELSE IF Len(z) = 1 THEN z[1] ELSE z[1] + 1 + Zeichen(Tail(z))

\* len(block.strip())
StripLen(block) == Zeichen(OhneLeerEnde(OhneLeerAnfang(block)))

IstGefuellt(l) == l > 0

\* <<>> for None, else <<partei>>
_parse_partei_block(block, rolle) ==
    IF StripLen(block) < 5 THEN <<>>
    ELSE IF SelectSeq(block, IstGefuellt) = <<>> THEN <<>>
    ELSE <<[rolle |-> rolle,
            name |-> SelectSeq(block, IstGefuellt)[1],
            anschrift |-> IF Len(SelectSeq(block, IstGefuellt)) > 1
                          THEN SelectSeq(block, IstGefuellt)[2] ELSE 0]>>

\* group(1) of auftraggeber_match, in <<>>; <<>> without a match
AuftraggeberBlock(text) ==
    IF text.ag = <<>> THEN <<>> ELSE <<OhneLeerAnfang(text.ag[1])>>

\* what follows "Gegner" in "Gegnervertreter: ..." up to the end of the text
NachGegnerIm(z) ==
    IF Len(z) = 0 THEN <<10>>
    ELSE IF z[1] = 0 THEN <<10>> \o Tail(z)
    ELSE <<11 + z[1]>> \o Tail(z)

\* group(1) of gegner_match: "Gegner" is found in the label Gegner or, when
\* there is none, inside the label Gegnervertreter
GegnerBlock(text) ==
    IF text.gg # <<>> THEN <<OhneLeerAnfang(text.gg[1])>>
    ELSE IF text.gv # <<>> THEN <<NachGegnerIm(text.gv[1])>>
    ELSE <<>>

\* group(1) of gegnervertreter_match
GegnervertreterBlock(text) ==
    IF text.gv = <<>> THEN <<>> ELSE <<BisLeerzeile(OhneLeerAnfang(text.gv[1]))>>

\* the party of a match, if any: lines 268-271, 279-282, 290-292
ParteiAus(match, rolle) ==
    IF match = <<>> THEN <<>> ELSE _parse_partei_block(match[1], rolle)

_extrahiere_parteien(text) ==
    ParteiAus(AuftraggeberBlock(text), "Auftraggeber")
    \o ParteiAus(GegnerBlock(text), "Gegner")
    \o ParteiAus(GegnervertreterBlock(text), "Gegnervertreter")

Regionen == {<<>>} \cup {<<z>> : z \in SeqBis(Zeilenlaengen, MaxZeilen)}

InitPartei ==
    /\ PDF_AVAILABLE = TRUE
    /\ OCR_AVAILABLE = FALSE
    /\ fn_in \in [ag : Regionen, gg : Regionen, gv : Regionen]
    /\ fn_out = <<>>
    /\ OhneImporter
    /\ OhneBatch

Parteien ==
    /\ fn_out = <<>>
    /\ fn_out' = <<_extrahiere_parteien(fn_in)>>
    /\ UNCHANGED <<fn_in, PDF_AVAILABLE, OCR_AVAILABLE, importer_vars, batch_vars>>

NextPartei == Parteien

SpecPartei == InitPartei /\ [][NextPartei]_vars

\* a name can be taken from the region: it is labelled and has a filled line
HatName(region) == region # <<>> /\ SelectSeq(region[1], IstGefuellt) # <<>>

\* the list holds a party of the role
HatPartei(liste, rolle) == \E k \in 1..Len(liste) : liste[k].rolle = rolle

\* C16 as the spec states it: every party of the list has a non-empty name,
\* and a labelled region yields a party exactly when a name can be taken from
\* its block.
C16_Parteien ==
    fn_out # <<>> =>
        /\ \A k \in 1..Len(fn_out[1]) : fn_out[1][k].name > 0
        /\ HatPartei(fn_out[1], "Auftraggeber") <=> HatName(fn_in.ag)
        /\ HatPartei(fn_out[1], "Gegner") <=> HatName(fn_in.gg)
        /\ HatPartei(fn_out[1], "Gegnervertreter") <=> HatName(fn_in.gv)

\* page p takes the OCR path and the OCR fails: no path, or an exception
OcrFehlschlag(p) ==
    OcrPfad(datei.pages[p]) /\ (~pdf_path \/ datei.pages[p].ocr_fehler)

\* C17: _ocr_seite returns the empty string when the engine is unavailable,
\* there is no path or the OCR raises; a page whose OCR fails starts no
\* document and is absorbed by the open document or skipped, the scan goes
\* on to the next page, and a call on a readable PDF returns erfolg = true.
C17_OcrFehler ==
    /\ \A p \in 1..NSeiten :
           (~OCR_AVAILABLE \/ ~pdf_path \/ datei.pages[p].ocr_fehler) =>
               _ocr_seite(pdf_path, datei.pages[p]) = LeererText
    /\ \A l \in 1..Len(listen) : \A k \in 1..Len(listen[l]) :
           ~OcrFehlschlag(listen[l][k].seite_von)
    /\ (pc = "scan" /\ scan.i >= 1 /\ ~datei.pages[scan.i].raises /\ OcrFehlschlag(scan.i)) =>
           /\ ocr_verwendet
           /\ scan.current_doc # <<>> =>
                  /\ scan.current_doc[1].seite_von < scan.i
                  /\ scan.current_doc[1].seite_bis = scan.i
           /\ scan.current_doc = <<>> => ErsterTreffer(scan.i) = 0
    /\ (Zurueck /\ Lesbar) => (Letztes.erfolg /\ Letztes.fehler = <<>>)

\* the OCR of page 2 fails: page 2 is absorbed by the document of page 1 and
\* page 3 starts the next document
C17_Witness ==
    /\ Zurueck /\ Lesbar
    /\ NSeiten = 3
    /\ OcrFehlschlag(2)
    /\ Letztes.erfolg
    /\ Len(Docs(Letztes)) = 2
    /\ Docs(Letztes)[1].seite_bis = 2
    /\ Docs(Letztes)[2].seite_von = 3


\* page p has too little native text and no OCR text can be had for it: the
\* engine is unavailable, there is no path, or the OCR raises
OcrVersagt(p) ==
    /\ datei.pages[p].text.slen < 50
    /\ (~OCR_AVAILABLE \/ ~pdf_path \/ datei.pages[p].ocr_fehler)

\* C17 as stated: also with the engine unavailable the page is treated as
\* matching no rule, so that no document starts at it.
C17_Original ==
    \A l \in 1..Len(listen) : \A k \in 1..Len(listen[l]) :
        ~OcrVersagt(listen[l][k].seite_von)


\* some page of the file takes the OCR path
OcrBenutzt == \E p \in 1..NSeiten : OcrPfad(datei.pages[p])

\* C18: a call on a readable PDF returns erfolg = true without an error or a
\* warning, and the returned result carries a flag ocr_verwendet that is true
\* exactly when some page took the OCR path.
C18_OcrFlag ==
    (Zurueck /\ Lesbar) =>
        /\ Letztes.erfolg
        /\ Letztes.fehler = <<>>
        /\ Letztes.warnungen = <<>>
        /\ "ocr_verwendet" \in DOMAIN Letztes
        /\ Letztes.ocr_verwendet = OcrBenutzt


\* C19: a batch always ends: importiere_batch eventually returns one result
\* for every file, and the result of a file whose analysis does not end is a
\* failure.
C19_Timeout ==
    <>(/\ b_pc = "fertig"
       /\ Len(b_ergebnisse) = Len(dateien)
       /\ \A k \in 1..Len(dateien) : Haengt(dateien[k]) => ~b_ergebnisse[k].erfolg)


(***************************************************************************)
(* The importer in use: analysiere_pdf, extrahiere_dokumente,              *)
(* exportiere_metadaten and fuer_juraconnect called one after the other,   *)
(* each as one step.  aufrufe counts the calls, rueckgaben holds the       *)
(* results of the analysiere_pdf calls, fn_out the value the latest other  *)
(* operation returned.                                                     *)
(***************************************************************************)
MaxOperationen == 3

PDF_scan == [lesbar |-> TRUE, pages |-> <<Seite(T_beschluss), S_kurz>>]

NutzungsPDFs == {PDF_unlesbar, PDF_vorblatt, PDF_akte, PDF_defekt, PDF_scan}

\* the attributes of the importer
Selbst ==
    [aktenvorblatt |-> aktenvorblatt, dokumente |-> dokumente,
     total_pages |-> total_pages, ocr_verwendet |-> ocr_verwendet, listen |-> listen]

\* one of the first n pages took the OCR path
OcrBis(pages, n) == \E p \in 1..n : OcrPfad(pages[p])

\* an analysis that stores the documents found before the exception
NachScan_teilweise(imp, lauf, docs) ==
    [selbst |-> [imp EXCEPT !.listen = Append(imp.listen, docs),
                            !.dokumente = Len(imp.listen) + 1],
     e |-> IF ~lauf.ok
           THEN NachAusnahme([ImportErgebnis EXCEPT !.aktenvorblatt = imp.aktenvorblatt])
           ELSE ErgebnisMitScore(imp.aktenvorblatt, Len(imp.listen) + 1,
                                 _bewerte_qualitaet(imp.aktenvorblatt, docs))]

\* analysiere_pdf after the loop of _erkenne_dokumente: lines 364-368 and
\* 198-208; imp: the importer then, docs: the list the loop ends with
NachScan(imp, lauf, docs) ==
    IF ~lauf.ok
    THEN [selbst |-> imp,
          e |-> NachAusnahme([ImportErgebnis EXCEPT !.aktenvorblatt = imp.aktenvorblatt])]
    ELSE [selbst |-> [imp EXCEPT !.listen = Append(imp.listen, docs),
                                 !.dokumente = Len(imp.listen) + 1],
          e |-> ErgebnisMitScore(imp.aktenvorblatt, Len(imp.listen) + 1,
                                 _bewerte_qualitaet(imp.aktenvorblatt, docs))]

\* lauf: what the loop of _erkenne_dokumente ended with
MitLauf(imp, pages, lauf) ==
    NachScan([imp EXCEPT !.ocr_verwendet = imp.ocr_verwendet \/ OcrBis(pages, lauf.s.i)],
             lauf, ScanAbschluss(lauf.s, Len(pages)))

\* analysiere_pdf(pdf_content) on the importer imp, pdf: the PDF that is read;
\* the importer afterwards and the result returned
AnalysiereDatei(imp, content, pdf) ==
    IF ~PDF_AVAILABLE
    THEN [selbst |-> imp,
          e |-> [ImportErgebnis EXCEPT !.erfolg = FALSE,
                                       !.fehler = <<"PDF-Bibliotheken nicht installiert">>]]
    ELSE IF (~content /\ ~pdf_path) \/ ~pdf.lesbar
    THEN [selbst |-> imp, e |-> NachAusnahme(ImportErgebnis)]
    ELSE IF Len(pdf.pages) > 0 /\ pdf.pages[1].raises
    THEN [selbst |-> [imp EXCEPT !.total_pages = Len(pdf.pages)],
          e |-> NachAusnahme(ImportErgebnis)]
    ELSE MitLauf([imp EXCEPT !.total_pages = Len(pdf.pages),
                             !.aktenvorblatt = <<_extrahiere_aktenvorblatt(pdf)>>],
                 pdf.pages, ScanAlle(pdf_path, pdf.pages))

\* analysiere_pdf on the file of the importer
Analysiere(imp, content) == AnalysiereDatei(imp, content, datei)

\* re.sub(...)[:80] of the title: line 483
SafeTitle(titel) ==
    IF titel.form = "betreff" THEN "Betreff"
    ELSE IF titel.form = "typ vom datum" THEN titel.doc_type \o " vom Datum"
    ELSE titel.doc_type

\* line 484, for the ids below 10
Dateiname(doc) ==
    "00" \o ToString(doc.id) \o "_" \o doc.kategorie \o "_" \o SafeTitle(doc.titel) \o ".pdf"

\* the documents the loop of extrahiere_dokumente does not skip: lines 480-481;
\* nur = {} stands for nur_kategorien = None
Gewaehlt(doc, nur) == nur = {} \/ doc.kategorie \in nur

\* the documents after the loop of lines 479-497
MitDateinamen(docs, nur) ==
    [k \in 1..Len(docs) |->
        IF Gewaehlt(docs[k], nur)
        THEN [docs[k] EXCEPT !.dateiname = Dateiname(docs[k])]
        ELSE docs[k]]

\* the list of lines 478, 497 as file names
ErstellteDateien(docs, nur) ==
    LET gew == {k \in 1..Len(docs) : Gewaehlt(docs[k], nur)}
        f[n \in 0..Len(docs)] ==
            IF n = 0 THEN <<>>
            ELSE IF n \in gew THEN Append(f[n - 1], Dateiname(docs[n]))
            ELSE f[n - 1]
    IN  f[Len(docs)]

\* lines 473-474
VorExtraktion(imp) ==
    IF imp.dokumente = 0 \/ imp.listen[imp.dokumente] = <<>>
    THEN Analysiere(imp, FALSE).selbst
    ELSE imp

\* the loop of lines 479-497 on the importer imp
Extrahiert(imp, nur) ==
    IF imp.dokumente = 0 THEN imp
    ELSE [imp EXCEPT !.listen[imp.dokumente] = MitDateinamen(@, nur)]

\* the documents of the importer imp
SelbstDocs(imp) == IF imp.dokumente = 0 THEN <<>> ELSE imp.listen[imp.dokumente]

\* the importer's attributes become those of imp
Setze(imp) ==
    /\ aktenvorblatt' = imp.aktenvorblatt
    /\ dokumente' = imp.dokumente
    /\ total_pages' = imp.total_pages
    /\ ocr_verwendet' = imp.ocr_verwendet
    /\ listen' = imp.listen

InitNutzung ==
    /\ PDF_AVAILABLE \in BOOLEAN
    /\ OCR_AVAILABLE \in BOOLEAN
    /\ datei \in NutzungsPDFs
    /\ pdf_path \in BOOLEAN
    /\ aktenvorblatt = <<>>
    /\ dokumente = 0
    /\ total_pages = 0
    /\ ocr_verwendet = FALSE
    /\ listen = <<>>
    /\ pc = "idle"
    /\ pdf_content = FALSE
    /\ ergebnis = ImportErgebnis
    /\ scan = ScanAnfang
    /\ rueckgaben = <<>>
    /\ letzte_liste = 0
    /\ aufrufe = 0
    /\ OhneFunktion
    /\ OhneBatch

\* what an operation of the importer leaves alone
NutzungRest ==
    /\ aufrufe < MaxOperationen
    /\ aufrufe' = aufrufe + 1
    /\ UNCHANGED <<PDF_AVAILABLE, OCR_AVAILABLE, datei, pdf_path, pc, pdf_content,
                   ergebnis, scan, letzte_liste, fn_in, batch_vars>>

AnalysierenMit(nach) ==
    /\ Setze(nach.selbst)
    /\ rueckgaben' = Append(rueckgaben, nach.e)

\* ergebnis = importer.analysiere_pdf(pdf_content)
Analysieren ==
    /\ NutzungRest
    /\ \E content \in BOOLEAN : AnalysierenMit(Analysiere(Selbst, content))
    /\ UNCHANGED fn_out

\* ergebnis = importer.analysiere_pdf(pdf_content) with the bytes of another PDF
AnalysierenBytes ==
    /\ NutzungRest
    /\ \E pdf \in NutzungsPDFs \ {datei} :
           AnalysierenMit(AnalysiereDatei(Selbst, TRUE, pdf))
    /\ UNCHANGED fn_out

ExtrahierenMit(imp, nur) ==
    IF ~datei.lesbar
    THEN /\ Setze(imp)
         /\ fn_out' = <<"extrahiere_dokumente", <<"raises">>>>
    ELSE /\ Setze(Extrahiert(imp, nur))
         /\ fn_out' = <<"extrahiere_dokumente", ErstellteDateien(SelbstDocs(imp), nur)>>

\* importer.extrahiere_dokumente(nur_kategorien): lines 468-499; PdfReader
\* raises for a file that cannot be read
Extrahieren ==
    /\ NutzungRest
    /\ \E nur \in {{}, {"Gericht"}} :
           IF ~PDF_AVAILABLE \/ ~pdf_path
           THEN /\ Setze(Selbst)
                /\ fn_out' = <<"extrahiere_dokumente", <<>>>>
           ELSE ExtrahierenMit(VorExtraktion(Selbst), nur)
    /\ UNCHANGED rueckgaben

\* importer.exportiere_metadaten(): lines 501-518; the data written
Exportieren ==
    /\ NutzungRest
    /\ fn_out' = <<"exportiere_metadaten",
                   <<[aktenvorblatt |-> aktenvorblatt,
                      dokumente |-> SelbstDocs(Selbst),
                      ocr_verwendet |-> ocr_verwendet,
                      qualitaet_score |-> _bewerte_qualitaet(aktenvorblatt, SelbstDocs(Selbst))]>>>>
    /\ UNCHANGED <<aktenvorblatt, dokumente, total_pages, ocr_verwendet, listen, rueckgaben>>

\* an entry of "dokumente": lines 557-563
JuraDokument(doc) ==
    [titel |-> doc.titel, kategorie |-> doc.kategorie, datum |-> doc.datum,
     dateiname |-> doc.dateiname, seiten |-> <<doc.seite_von, doc.seite_bis>>]

\* importer.fuer_juraconnect(): lines 520-566; of the dictionary returned, the
\* amount in dispute and the documents
Juraconnect ==
    /\ NutzungRest
    /\ fn_out' = <<"fuer_juraconnect",
                   IF aktenvorblatt = <<>> THEN <<>>
                   ELSE <<[streitwert |-> aktenvorblatt[1].gegenstandswert,
                           dokumente |-> [k \in 1..Len(SelbstDocs(Selbst)) |->
                                             JuraDokument(SelbstDocs(Selbst)[k])]]>>>>
    /\ UNCHANGED <<aktenvorblatt, dokumente, total_pages, ocr_verwendet, listen, rueckgaben>>

NextNutzung == Analysieren \/ AnalysierenBytes \/ Extrahieren \/ Exportieren \/ Juraconnect

SpecNutzung == InitNutzung /\ [][NextNutzung]_vars

\* C20: no operation on the importer changes a result that analysiere_pdf
\* has returned, or a document of the list the result refers to.
C20_Unveraendert ==
    [][\A k \in 1..Len(rueckgaben) :
           /\ rueckgaben'[k] = rueckgaben[k]
           /\ rueckgaben[k].dokumente # 0 =>
                  listen'[rueckgaben[k].dokumente] = listen[rueckgaben[k].dokumente]]_vars


\* the matching pages among 1..n
TrefferSeiten(n) == {p \in 1..n : Trifft(p)}

\* the classifications of pages 1..n, each by the text the scan classifies it by
RECURSIVE SeitenKlassen(_)
SeitenKlassen(n) ==
    IF n = 0 THEN <<>>
    ELSE Append(SeitenKlassen(n - 1),
                _klassifiziere_seite(SeitenText(pdf_path, datei.pages[n])))

\* the number of matching pages among 1..n, given the classifications kl
TrefferBis(kl, n) == Cardinality({p \in 1..n : kl[p].doc_type # None})

\* document j of a list starts on the j-th matching page and has the
\* category of the first rule that matches that page
StartetAufTreffer(kl, doc, j) ==
    /\ doc.seite_von \in 1..Len(kl)
    /\ kl[doc.seite_von].doc_type # None
    /\ TrefferBis(kl, doc.seite_von) = j
    /\ doc.kategorie = kl[doc.seite_von].kategorie

GrenzenMit(kl) ==
    /\ \A l \in 1..Len(listen) :
           /\ Len(listen[l]) = TrefferBis(kl, Len(kl))
           /\ \A j \in 1..Len(listen[l]) : StartetAufTreffer(kl, listen[l][j], j)
    /\ pc = "scan" =>
           /\ Len(scan.dokumente) + Len(scan.current_doc) = TrefferBis(kl, scan.i)
           /\ scan.doc_id = TrefferBis(kl, scan.i)
           /\ (scan.i >= 1 /\ kl[scan.i].doc_type = None /\ scan.current_doc # <<>>) =>
                  /\ scan.current_doc[1].seite_von < scan.i
                  /\ scan.current_doc[1].seite_bis = scan.i
           /\ (scan.i >= 1 /\ kl[scan.i].doc_type # None) =>
                  /\ scan.current_doc # <<>>
                  /\ scan.current_doc[1].seite_von = scan.i
                  /\ scan.current_doc[1].seite_bis = scan.i

\* C21: a list the scan produces holds one document for every matching page,
\* the j-th document starts on the j-th matching page and has that page's
\* category; during the scan the closed documents and the open one are as
\* many as the matching pages read, and a page without a match leaves the
\* number of documents alone and is the end page of the open document.
C21_Grenzen == GrenzenMit(SeitenKlassen(NSeiten))

\* pages 1 and 3 match, page 2 does not: two documents, pages 1-2 and 3
C21_Witness ==
    /\ pc = "idle"
    /\ NSeiten = 3
    /\ TrefferSeiten(NSeiten) = {1, 3}
    /\ dokumente # 0
    /\ Len(listen[dokumente]) = 2
    /\ listen[dokumente][1].seite_bis = 2
    /\ listen[dokumente][2].seite_von = 3
    /\ listen[dokumente][1].kategorie # listen[dokumente][2].kategorie


\* C22: a pass of the scan loop over a page takes the OCR path exactly when
\* the stripped native text has fewer than 50 characters and OCR is available;
\* then the page is handled with the OCR output as its text and ocr_verwendet
\* is true afterwards; otherwise the page is handled with its native text and
\* ocr_verwendet keeps its value.
C22_OcrPfad ==
    [][(pc = "scan" /\ pc' = "scan" /\ scan'.i = scan.i + 1) =>
          IF datei.pages[scan'.i].text.slen < 50 /\ OCR_AVAILABLE
          THEN /\ ocr_verwendet'
               /\ scan' = ScanMitText(scan, scan'.i, _ocr_seite(pdf_path, datei.pages[scan'.i]))
          ELSE /\ ocr_verwendet' = ocr_verwendet
               /\ scan' = ScanMitText(scan, scan'.i, datei.pages[scan'.i].text)]_vars

\* the short page "Beschluss" has been read by OCR as a Vollmacht: the
\* document it opens is the one of the OCR text, and the flag is set
C22_Witness ==
    /\ pc = "scan"
    /\ scan.i >= 1
    /\ datei.pages[scan.i] = S_kurz
    /\ OCR_AVAILABLE /\ pdf_path
    /\ ocr_verwendet
    /\ scan.current_doc # <<>>
    /\ scan.current_doc[1].seite_von = scan.i
    /\ scan.current_doc[1].titel.doc_type = DOKUMENT_MUSTER[31].doc_type
    /\ _klassifiziere_seite(S_kurz.text).doc_type = DOKUMENT_MUSTER[8].doc_type


(***************************************************************************)
(* _extrahiere_datum applied to a text.                                    *)
(***************************************************************************)
Datiere ==
    /\ fn_out = <<>>
    /\ fn_out' = <<_extrahiere_datum(fn_in)>>
    /\ UNCHANGED <<fn_in, PDF_AVAILABLE, OCR_AVAILABLE, importer_vars, batch_vars>>

NextDatum == Datiere

SpecDatum == InitKlass /\ [][NextDatum]_vars

\* the positions of the date-like tokens of a text
DatumsStellen(text) ==
    {n \in 1..Len(text.toks) : text.toks[n] \in {TokDatumNum, TokDatumName}}

\* C23: the date returned is the first date-like token of the text in reading
\* order, numeric or with a month name, and no date is returned when the text
\* holds no such token.
C23_ErstesDatum ==
    fn_out # <<>> =>
        IF DatumsStellen(fn_in) = {} THEN fn_out[1] = KeinDatum
        ELSE /\ fn_out[1] # KeinDatum
             /\ \A n \in DatumsStellen(fn_in) : fn_out[1].pos <= n
             /\ fn_out[1].art = IF fn_in.toks[fn_out[1].pos] = TokDatumNum
                                THEN "numerisch" ELSE "monatsname"


\* C24: in every result analysiere_pdf has returned, successful or failed,
\* the label is the one _qualitaet_text gives for the result's score.
C24_Label ==
    \A k \in 1..Len(rueckgaben) :
        rueckgaben[k].qualitaet = _qualitaet_text(rueckgaben[k].qualitaet_score)


\* C25: during the scan, after page p has been read with a document open, the
\* document's end page is p and not below its start page; hence closing it at
\* the next boundary (at page p) and closing it at the end of the file (at
\* page N) both append it unchanged, and no opened document is dropped.
C25_Endseite ==
    pc = "scan" =>
        /\ scan.current_doc # <<>> =>
               /\ scan.current_doc[1].seite_bis = scan.i
               /\ scan.current_doc[1].seite_bis >= scan.current_doc[1].seite_von
        /\ scan.i < NSeiten =>
               Schliesse(scan, SchlussSeite(scan.i + 1)) = scan.dokumente \o scan.current_doc
        /\ scan.i = NSeiten =>
               ScanAbschluss(scan, total_pages) = scan.dokumente \o scan.current_doc
        /\ Len(scan.dokumente) + Len(scan.current_doc) = scan.doc_id

\* the document of page 1 has absorbed page 2 and page 3 is a boundary
C25_Witness ==
    /\ pc = "scan"
    /\ NSeiten = 3
    /\ scan.i = 2
    /\ scan.current_doc # <<>>
    /\ scan.current_doc[1].seite_von = 1
    /\ scan.current_doc[1].seite_bis = 2
    /\ Trifft(3)


\* the double nearest to 0.6
F_0_6 == FRound(6, 0, 10)

\* C26: every document the scan creates, open, closed or stored, has a
\* confidence of at least 0.6, and every result returned with at least one
\* document has a score of at least 11.
C26_Mindestwerte ==
    /\ \A l \in 1..Len(listen) : \A k \in 1..Len(listen[l]) :
           FLeq(F_0_6, listen[l][k].konfidenz)
    /\ pc = "scan" =>
           \A k \in 1..Len(scan.dokumente \o scan.current_doc) :
               FLeq(F_0_6, (scan.dokumente \o scan.current_doc)[k].konfidenz)
    /\ \A k \in 1..Len(rueckgaben) :
           Docs(rueckgaben[k]) # <<>> => rueckgaben[k].qualitaet_score >= 11

\* one short page "Beschluss" without OCR: one document of confidence 0.6, no
\* cover-sheet points, score 5 + 6 = 11
C26_Witness ==
    /\ Zurueck
    /\ Len(Docs(Letztes)) = 1
    /\ Docs(Letztes)[1].konfidenz = F_0_6
    /\ Letztes.qualitaet_score = 11


(***************************************************************************)
(* One BatchImporter, importiere_batch called several times.  aufrufe      *)
(* counts the calls, fn_out holds the lists the finished calls returned,   *)
(* protokoll goes on over all calls.                                       *)
(***************************************************************************)
MaxBatchAufrufe == 2
MaxBatchDateien == 2

PfadeMehr == {[art |-> "str", pdf |-> PDF_akte],
              [art |-> "str", pdf |-> PDF_unlesbar],
              [art |-> "bytes", pdf |-> PDF_akte]}

\* BatchImporter() and the first call importiere_batch(dateien)
InitBatchMehr ==
    /\ PDF_AVAILABLE = TRUE
    /\ OCR_AVAILABLE = FALSE
    /\ dateien \in SeqBis(PfadeMehr, MaxBatchDateien)
    /\ progress_callback = FALSE
    /\ b_pc = IF Len(dateien) = 0 THEN "fertig" ELSE "callback"
    /\ b_i = 0
    /\ b_ergebnisse = <<>>
    /\ self_ergebnisse = <<>>
    /\ protokoll = <<>>
    /\ OhneFunktion
    /\ datei = PDF_unlesbar /\ pdf_path = FALSE /\ aktenvorblatt = <<>>
    /\ dokumente = 0 /\ total_pages = 0 /\ ocr_verwendet = FALSE
    /\ listen = <<>> /\ pc = "-" /\ pdf_content = FALSE
    /\ ergebnis = ImportErgebnis /\ scan = ScanAnfang
    /\ rueckgaben = <<>> /\ letzte_liste = 0
    /\ aufrufe = 1

\* return ergebnisse (line 616) and the next call importiere_batch(neu) on
\* the same BatchImporter: lines 587-588
Wiederaufruf ==
    /\ b_pc = "fertig"
    /\ aufrufe < MaxBatchAufrufe
    /\ aufrufe' = aufrufe + 1
    /\ fn_out' = Append(fn_out, b_ergebnisse)
    /\ \E neu \in SeqBis(PfadeMehr, MaxBatchDateien) :
           /\ dateien' = neu
           /\ b_pc' = IF Len(neu) = 0 THEN "fertig" ELSE "callback"
    /\ b_i' = 0
    /\ b_ergebnisse' = <<>>
    /\ UNCHANGED <<self_ergebnisse, protokoll, progress_callback, fn_in>>
    /\ UNCHANGED <<PDF_AVAILABLE, OCR_AVAILABLE, datei, pdf_path, aktenvorblatt, dokumente,
                   total_pages, ocr_verwendet, listen, pc, pdf_content, ergebnis, scan,
                   rueckgaben, letzte_liste>>

NextBatchMehr == Callback \/ Versuch \/ Wiederaufruf

SpecBatchMehr == InitBatchMehr /\ [][NextBatchMehr]_vars

\* the files of all calls whose analysis has returned
Analysiert == {p \in 1..Len(protokoll) : protokoll[p].typ = "analyse"}

\* the k-th file, over all calls, whose analysis has returned
NterAnalysierte(k) ==
    protokoll[CHOOSE p \in Analysiert :
                  Cardinality({q \in Analysiert : q <= p}) = k].name

\* C27: self.ergebnisse holds, in order, one entry for every file of every
\* call so far whose analysis returned and none for a file caught by the
\* handler, so it only grows and a new call does not reset it; statistiken()
\* counts those files, erfolgreich + fehlgeschlagen = gesamt, the mean is 0
\* when nothing is recorded; a call returns one result per file of that call.
C27_Waechst ==
    /\ Len(self_ergebnisse) = Cardinality(Analysiert)
    /\ \A k \in 1..Len(self_ergebnisse) :
           self_ergebnisse[k].datei = NterAnalysierte(k)
    /\ statistiken.gesamt = Cardinality(Analysiert)
    /\ statistiken.erfolgreich + statistiken.fehlgeschlagen = statistiken.gesamt
    /\ statistiken.erfolgreich >= 0 /\ statistiken.fehlgeschlagen >= 0
    /\ self_ergebnisse = <<>> =>
           /\ statistiken.durchschnitt_qualitaet.summe = 0
           /\ statistiken.durchschnitt_qualitaet.anzahl = 1
    /\ Len(b_ergebnisse) = b_i
    /\ b_pc = "fertig" => Len(b_ergebnisse) = Len(dateien)
    /\ \A a \in 1..Len(fn_out) : Len(fn_out[a]) <= MaxBatchDateien

\* the second call has returned its one result; the statistics cover the file
\* of the first call whose analysis returned and the file of the second call
C27_Witness ==
    /\ aufrufe = 2
    /\ b_pc = "fertig"
    /\ Len(fn_out) = 1 /\ Len(fn_out[1]) = 2
    /\ Len(dateien) = 1 /\ Len(b_ergebnisse) = 1
    /\ statistiken.gesamt = 2
    /\ statistiken.erfolgreich = 1 /\ statistiken.fehlgeschlagen = 1


\* the page just read took the OCR path
OcrSeiteGelesen ==
    pc = "scan" /\ scan.i >= 1 /\ ~datei.pages[scan.i].raises /\ OcrPfad(datei.pages[scan.i])

\* the document that page p opens when it is classified by text
DokumentAus(text, p, id) == NeuesDokument(id, text, p, _klassifiziere_seite(text))

\* C28: after a page that took the OCR path, ocr_verwendet is true; if the
\* OCR output matches a rule the open document is the one made from the OCR
\* output alone (category, title, date, preview, confidence), otherwise the
\* page opened no document; when the OCR returned the empty string (an error,
\* or no PDF path) the page opened no document even if its native text
\* matches a rule.
C28_NurOcrText ==
    OcrSeiteGelesen =>
        /\ ocr_verwendet
        /\ IF _klassifiziere_seite(_ocr_seite(pdf_path, datei.pages[scan.i])).doc_type # None
           THEN scan.current_doc
                    = <<DokumentAus(_ocr_seite(pdf_path, datei.pages[scan.i]), scan.i, scan.doc_id)>>
           ELSE scan.current_doc = <<>> \/ scan.current_doc[1].seite_von < scan.i
        /\ (~pdf_path \/ datei.pages[scan.i].ocr_fehler) =>
               /\ _ocr_seite(pdf_path, datei.pages[scan.i]) = LeererText
               /\ scan.current_doc = <<>> \/ scan.current_doc[1].seite_von < scan.i

\* the PDF was passed as bytes: the short page "Beschluss" went to the OCR,
\* which returned the empty string; no document is open, the flag is set
C28_Witness ==
    /\ OcrSeiteGelesen
    /\ ~pdf_path
    /\ datei.pages[scan.i] = S_kurz
    /\ _klassifiziere_seite(S_kurz.text).doc_type # None
    /\ scan.current_doc = <<>>
    /\ ocr_verwendet


\* C29: a call of analysiere_pdf that returns a failed result leaves
\* self.dokumente the list it was before the call, with the documents it had,
\* stores no list of the documents found before the exception, and the
\* result it returns has the empty document list.
C29_KeineTeilliste ==
    [][(Len(rueckgaben') = Len(rueckgaben) + 1 /\ ~rueckgaben'[Len(rueckgaben')].erfolg) =>
          /\ dokumente' = dokumente
          /\ listen' = listen
          /\ rueckgaben'[Len(rueckgaben')].dokumente = 0]_vars

\* the first call stored two documents or more; the second call read another
\* PDF, extracted its cover sheet and failed in the scan: the stored list is
\* still the one of the first call
C29_Witness ==
    /\ aufrufe = 2
    /\ Len(rueckgaben) = 2
    /\ rueckgaben[1].erfolg
    /\ Len(Docs(rueckgaben[1])) >= 2
    /\ ~rueckgaben[2].erfolg
    /\ rueckgaben[2].aktenvorblatt # <<>>
    /\ rueckgaben[2].dokumente = 0
    /\ dokumente = rueckgaben[1].dokumente
    /\ Len(listen) = 1
====
